---------------------------- MODULE Spec2Model ----------------------------
(***************************************************************************)
(* A model of the Go binding of the Tox core (package tox): the startup    *)
(* options translator (COptions, GoOptions, FreeOptions), the instance     *)
(* constructor New, the per-operation translation of the engine's error    *)
(* codes, and the event callbacks registered by SetOn<K> and run inside    *)
(* Process.  The engine (toxcore) is a black box: every value it returns   *)
(* is a nondeterministic choice.  The later sections follow the calls made  *)
(* on one Instance against an engine that keeps a name, a status message,  *)
(* a friend list and a key pair, two Instances in one process, the call    *)
(* stack of each thread during a dispatch, and a size-then-fetch getter    *)
(* racing with the methods that change what the engine holds.              *)
(***************************************************************************)
EXTENDS Integers, Sequences, FiniteSets, TLC

VARIABLES
    heap,        \* the C heap: address -> [live, data]
    heapLog,     \* the heap and engine calls of the operation in progress, in order
    options,     \* the Go ToxOptions handed to the translator
    c_options,   \* the C struct Tox_Options in hand
    result,      \* the Go ToxOptions returned by GoOptions
    throw,       \* the error returned by the translator
    optPc,       \* position of the caller of the translator
    call,        \* the last API call made on the black-box engine and what it returned
    slot,        \* the handler fields of the Instance: field -> handler
    registered,  \* the engine's callback table of the handle: kind -> user data
    lock,        \* the Instance's mutex
    procPc,      \* position of the thread that drives Process
    event,       \* the last event the engine raised, with what its callback did
    lastSet,     \* per field, the argument of the most recent SetOn<K> call
    setCalls,    \* number of SetOn<K> calls made so far
    tickLog,     \* the events raised in the Process call in progress, with what ran
    pc,          \* per thread, the call it is in and its position there
    handle,      \* the handle field of the Instance
    engine,      \* the engine's state behind the handle
    trail        \* the calls made on the Instance so far, each with the engine's state around it

optVars  == <<options, c_options, result, throw, optPc>>
heapVars == <<heap, heapLog>>
apiVars  == <<call>>
evVars   == <<slot, registered, lock, procPc, event, lastSet, setCalls>>
lifeVars == <<pc, handle, engine, trail>>
moreVars == <<tickLog, pc, handle, engine, trail>>
vars     == <<heap, heapLog, options, c_options, result, throw, optPc, call,
              slot, registered, lock, procPc, event, lastSet, setCalls,
              tickLog, pc, handle, engine, trail>>

---------------------------------------------------------------------------
(* Bounds of the model. *)

\* longest ProxyHost string drawn
MaxHostLen == 2
\* longest SaveData slice drawn
MaxSaveLen == 2
\* cells of the C heap
HeapCells == 3
\* SetOn<K> calls in one behaviour
MaxSetCalls == 2
\* events logged in one Process call
MaxEvents == 2
\* longest buffer the engine hands out (a name, a status message, an event payload)
MaxBufLen == 1

---------------------------------------------------------------------------
(* Go and C values. *)

\* the bytes drawn: NUL and one other byte
ByteSet == {0, 65}

RECURSIVE SeqsUpTo(_, _)
SeqsUpTo(S, n) ==
    IF n = 0 THEN {<<>>}
    ELSE LET shorter == SeqsUpTo(S, n - 1)
         IN  shorter \cup {Append(s, b) : s \in {t \in shorter : Len(t) = n - 1}, b \in S}

\* a Go slice: nil, or a present sequence of elements
NilSlice == [nil |-> TRUE, elems |-> <<>>]
Slice(s) == [nil |-> FALSE, elems |-> s]
GoLen(sl) == Len(sl.elems)

\* a C pointer into a Go slice's bytes, or the null pointer
NullPtr == [null |-> TRUE, bytes |-> <<>>]
PtrTo(bytes) == [null |-> FALSE, bytes |-> bytes]

\* make([]byte, n): a present slice of n zero bytes
RECURSIVE Zeros(_)
Zeros(n) == IF n = 0 THEN <<>> ELSE <<0>> \o Zeros(n - 1)
MakeBytes(n) == Slice(Zeros(n))

\* pointer to the first byte of a slice: &s[0]
FirstByte(s) == PtrTo(s.elems)

\* a slice after the engine wrote bytes at a pointer to its first byte
Written(s, bytes) ==
    Slice(bytes \o SubSeq(s.elems, Len(bytes) + 1, Len(s.elems)))

\* the null pointer
NULL == 0
Addr == 1..HeapCells

\* uint16 conversion
Uint16(n) == n % 65536

\* types.go: ToxProxyType is an int; the three named values are iota 0, 1, 2
ToxProxyTypeNone == 0
ToxProxyTypeHttp == 1
ToxProxyTypeSocks5 == 2
\* an int that is none of the named proxy types
ToxProxyTypeOther == ToxProxyTypeSocks5 + 1

\* the values of the engine's enum TOX_PROXY_TYPE, one of them unknown to the binding
CProxyTypes == {"TOX_PROXY_TYPE_NONE", "TOX_PROXY_TYPE_HTTP", "TOX_PROXY_TYPE_SOCKS5",
                "TOX_PROXY_TYPE_UNRECOGNIZED"}

\* a Go error value: nil or the identity of an error variable
NilErr == "nil"
ErrUnknownProxyType == "errors.New(unknown proxy type)"

\* a nil *ToxOptions and a null *C.struct_Tox_Options
NoOptions == [isNil |-> TRUE]
NoStruct == [isNull |-> TRUE]

\* the port fields drawn: all zero (the engine's default range), or four different ports
PortTuples == {<<0, 0, 0, 0>>, <<8080, 33445, 33545, 65535>>}

HostSet == SeqsUpTo(ByteSet, MaxHostLen)
SaveSet == {NilSlice} \cup {Slice(s) : s \in SeqsUpTo(ByteSet, MaxSaveLen)}

MkOptions(v6, udp, pt, host, ports, save) ==
    [isNil |-> FALSE, IPv6Enabled |-> v6, UDPEnabled |-> udp, ProxyType |-> pt,
     ProxyHost |-> host, ProxyPort |-> ports[1], StartPort |-> ports[2],
     EndPort |-> ports[3], TCPPort |-> ports[4], SaveData |-> save]

\* the ToxOptions values a caller can build
ToxOptionsSet ==
    {MkOptions(v6, udp, pt, host, ports, save) :
        v6 \in BOOLEAN, udp \in BOOLEAN,
        pt \in {ToxProxyTypeNone, ToxProxyTypeHttp, ToxProxyTypeSocks5, ToxProxyTypeOther},
        host \in HostSet, ports \in PortTuples, save \in SaveSet}

---------------------------------------------------------------------------
(* The C heap. *)

EmptyHeap == [a \in Addr |-> [live |-> FALSE, data |-> <<>>]]

FreeCells(h) == {a \in Addr : ~h[a].live}

\* the address the allocator hands out for a block; the lowest free cell
NextCell(h) == CHOOSE a \in FreeCells(h) : \A b \in FreeCells(h) : a <= b

\* C.malloc: a block of `size` bytes.  A request of size 0 returns either a
\* null pointer or a block, as the C library and cgo version decide.
MallocChoices(h, size) ==
    IF size = 0 THEN {NULL, NextCell(h)} ELSE {NextCell(h)}

Store(h, a, bytes) ==
    IF a = NULL THEN h ELSE [h EXCEPT ![a] = [live |-> TRUE, data |-> bytes]]

\* C.free: free(NULL) does nothing
Free(h, a) ==
    IF a = NULL THEN h ELSE [h EXCEPT ![a] = [live |-> FALSE, data |-> <<>>]]

---------------------------------------------------------------------------
(* Utilities and the startup options translator (tox.go). *)

\* C.CString: the bytes of the Go string followed by a terminating NUL
CString(str) == Append(str, 0)

RECURSIVE UpToNul(_)
UpToNul(bytes) ==
    IF bytes = <<>> \/ Head(bytes) = 0 THEN <<>>
    ELSE <<Head(bytes)>> \o UpToNul(Tail(bytes))

\* C.GoString: the bytes at the pointer up to the first NUL; "" for a null pointer
GoString(h, p) == IF p = NULL THEN <<>> ELSE UpToNul(h[p].data)

\* array2slice with a loop that stops one element early
array2sliceShort(h, array, size) ==
    Slice([i \in 1..size |-> IF i < size THEN h[array].data[i] ELSE 0])

\* array2slice: make([]byte, size) filled from the C array
array2slice(h, array, size) ==
    Slice([i \in 1..size |-> h[array].data[i]])

\* the switch of COptions with a default that falls back to no proxy
COptionsProxyTypeFallback(pt) ==
    CASE pt = ToxProxyTypeHttp   -> "TOX_PROXY_TYPE_HTTP"
      [] pt = ToxProxyTypeSocks5 -> "TOX_PROXY_TYPE_SOCKS5"
      [] OTHER                   -> "TOX_PROXY_TYPE_NONE"

\* the switch of COptions on options.ProxyType
COptionsProxyType(pt) ==
    CASE pt = ToxProxyTypeNone   -> "TOX_PROXY_TYPE_NONE"
      [] pt = ToxProxyTypeHttp   -> "TOX_PROXY_TYPE_HTTP"
      [] pt = ToxProxyTypeSocks5 -> "TOX_PROXY_TYPE_SOCKS5"
      [] OTHER                   -> "unknown proxy type"

\* the switch of GoOptions on c_options.proxy_type
GoOptionsProxyType(cpt) ==
    CASE cpt = "TOX_PROXY_TYPE_NONE"   -> ToxProxyTypeNone
      [] cpt = "TOX_PROXY_TYPE_HTTP"   -> ToxProxyTypeHttp
      [] cpt = "TOX_PROXY_TYPE_SOCKS5" -> ToxProxyTypeSocks5
      [] OTHER                         -> -1

\* the save-data tag chosen with the test on the length inverted
SaveDataTypeInverted(length) ==
    IF length # 0 THEN "TOX_SAVEDATA_TYPE_NONE" ELSE "TOX_SAVEDATA_TYPE_TOX_SAVE"

\* the save-data tag COptions chooses from len(options.SaveData)
SaveDataType(length) ==
    IF length = 0 THEN "TOX_SAVEDATA_TYPE_NONE" ELSE "TOX_SAVEDATA_TYPE_TOX_SAVE"

\* COptions: every outcome the call can have on heap h, as
\* [c, throw, heap, log]; the outcomes differ in what malloc(0) returned
COptions(o, h) ==
    IF COptionsProxyType(o.ProxyType) = "unknown proxy type"
    THEN {[c |-> NoStruct, throw |-> ErrUnknownProxyType, heap |-> h, log |-> <<>>]}
    ELSE LET host == NextCell(h)
             h1   == Store(h, host, CString(o.ProxyHost))
             length == GoLen(o.SaveData)
         IN  {[c |-> [isNull |-> FALSE,
                      ipv6_enabled |-> o.IPv6Enabled,
                      udp_enabled |-> o.UDPEnabled,
                      proxy_type |-> COptionsProxyType(o.ProxyType),
                      proxy_host |-> host,
                      proxy_port |-> Uint16(o.ProxyPort),
                      start_port |-> Uint16(o.StartPort),
                      end_port |-> Uint16(o.EndPort),
                      tcp_port |-> Uint16(o.TCPPort),
                      savedata_type |-> SaveDataType(length),
                      savedata_data |-> array,
                      savedata_length |-> length],
               throw |-> NilErr,
               heap |-> Store(h1, array, o.SaveData.elems),
               log |-> <<[op |-> "malloc", addr |-> host],
                         [op |-> "malloc", addr |-> array]>>]
              : array \in MallocChoices(h1, length)}

\* GoOptions: [options, throw]
GoOptions(c, h) ==
    IF GoOptionsProxyType(c.proxy_type) = -1
    THEN [options |-> NoOptions, throw |-> ErrUnknownProxyType]
    ELSE [options |-> [isNil |-> FALSE,
                       IPv6Enabled |-> c.ipv6_enabled,
                       UDPEnabled |-> c.udp_enabled,
                       ProxyType |-> GoOptionsProxyType(c.proxy_type),
                       ProxyHost |-> GoString(h, c.proxy_host),
                       ProxyPort |-> Uint16(c.proxy_port),
                       StartPort |-> Uint16(c.start_port),
                       EndPort |-> Uint16(c.end_port),
                       TCPPort |-> Uint16(c.tcp_port),
                       SaveData |-> array2slice(h, c.savedata_data, c.savedata_length)],
          throw |-> NilErr]

\* FreeOptions releasing the proxy host only
FreeOptionsHostOnly(c) == <<c.proxy_host>>

\* the pointers FreeOptions passes to C.free, in order
FreeOptions(c) == <<c.proxy_host, c.savedata_data>>

RECURSIVE FreeAll(_, _)
FreeAll(h, ptrs) ==
    IF ptrs = <<>> THEN h ELSE FreeAll(Free(h, Head(ptrs)), Tail(ptrs))

FreeLog(ptrs) == [i \in 1..Len(ptrs) |-> [op |-> "free", addr |-> ptrs[i]]]

\* what tox_options_default may leave in the caller's struct: the engine's
\* defaults, with whatever proxy type the engine build knows
EngineDefaultStructs ==
    {[isNull |-> FALSE, ipv6_enabled |-> TRUE, udp_enabled |-> TRUE,
      proxy_type |-> cpt, proxy_host |-> NULL, proxy_port |-> 0,
      start_port |-> 0, end_port |-> 0, tcp_port |-> 0,
      savedata_type |-> "TOX_SAVEDATA_TYPE_NONE", savedata_data |-> NULL,
      savedata_length |-> 0] : cpt \in CProxyTypes}

---------------------------------------------------------------------------
(* The caller of the translator: TestConvertOptions converts a ToxOptions  *)
(* to C, reads it back, and frees the C struct on its way out;             *)
(* DefaultOptions reads back the struct the engine filled.                 *)

\* no engine state is modelled behind a handle
NoEngine == [isNone |-> TRUE]

\* the log of a Process call in which the engine has raised nothing
NoTick == [raised |-> <<>>, invoked |-> <<>>]

\* no Instance exists
EvIdle ==
    /\ slot = <<>> /\ registered = <<>> /\ lock = "free" /\ procPc = "none"
    /\ event = <<>> /\ lastSet = <<>> /\ setCalls = 0
    /\ tickLog = NoTick /\ pc = <<>> /\ handle = NULL
    /\ engine = NoEngine /\ trail = <<>>

\* a nil *Tox
NoTox == [isNil |-> TRUE]

\* what an API call returned: the operation, the codes the engine reported in
\* order, the number or handle the engine returned, and the Go results
Ret(op, codes, eng, num, buf, err) ==
    [op |-> op, codes |-> codes, eng |-> eng, num |-> num, buf |-> buf,
     tox |-> NoTox, throw |-> err]

NoCall == Ret("none", <<>>, 0, 0, NilSlice, NilErr)

InitOptions ==
    /\ heap = EmptyHeap
    /\ heapLog = <<>>
    /\ options \in ToxOptionsSet
    /\ c_options = NoStruct
    /\ result = NoOptions
    /\ throw = NilErr
    /\ optPc = "start"
    /\ call = NoCall
    /\ EvIdle

CallCOptions ==
    /\ optPc = "start"
    /\ \E out \in COptions(options, heap) :
          /\ c_options' = out.c
          /\ throw' = out.throw
          /\ heap' = out.heap
          /\ heapLog' = heapLog \o out.log
          /\ optPc' = IF out.throw = NilErr THEN "converted" ELSE "failed"
    /\ UNCHANGED <<options, result, apiVars, evVars, moreVars>>

CallGoOptions ==
    /\ optPc = "converted"
    /\ result' = GoOptions(c_options, heap).options
    /\ throw' = GoOptions(c_options, heap).throw
    /\ optPc' = "read"
    /\ UNCHANGED <<options, c_options, heapVars, apiVars, evVars, moreVars>>

CallFreeOptions ==
    /\ optPc = "read"
    /\ heap' = FreeAll(heap, FreeOptions(c_options))
    /\ heapLog' = heapLog \o FreeLog(FreeOptions(c_options))
    /\ optPc' = "freed"
    /\ UNCHANGED <<options, c_options, result, throw, apiVars, evVars, moreVars>>

DefaultOptions ==
    /\ optPc = "start"
    /\ \E c \in EngineDefaultStructs :
          /\ c_options' = c
          /\ result' = GoOptions(c, heap).options
          /\ throw' = GoOptions(c, heap).throw
    /\ optPc' = "defaulted"
    /\ UNCHANGED <<options, heapVars, apiVars, evVars, moreVars>>

NextOptions == CallCOptions \/ CallGoOptions \/ CallFreeOptions \/ DefaultOptions

SpecOptions == InitOptions /\ [][NextOptions]_vars

---------------------------------------------------------------------------
(* Claims about the translator. *)

KnownProxyTypes == {ToxProxyTypeNone, ToxProxyTypeHttp, ToxProxyTypeSocks5}
KnownCProxyTypes == {"TOX_PROXY_TYPE_NONE", "TOX_PROXY_TYPE_HTTP", "TOX_PROXY_TYPE_SOCKS5"}

HasNul(str) == \E i \in 1..Len(str) : str[i] = 0

\* the fields of a round-tripped copy other than ProxyHost equal those of the input
SameButHost(o, r) ==
    /\ ~r.isNil
    /\ r.IPv6Enabled = o.IPv6Enabled
    /\ r.UDPEnabled = o.UDPEnabled
    /\ r.ProxyType = o.ProxyType
    /\ r.ProxyPort = o.ProxyPort
    /\ r.StartPort = o.StartPort
    /\ r.EndPort = o.EndPort
    /\ r.TCPPort = o.TCPPort
    /\ r.SaveData.elems = o.SaveData.elems

\* the translator's caller holds the copy read back from COptions' struct
ReadBack == optPc \in {"read", "freed"}

\* C1 as stated: for every ToxOptions with a known ProxyType,
\* GoOptions(COptions(C)) equals C in every field, ProxyHost included, before
\* and after FreeOptions has released the C struct.
C1_RoundTripEveryHost ==
    ReadBack => /\ SameButHost(options, result)
                /\ result.ProxyHost = options.ProxyHost

\* C1, amended: for every ToxOptions with a known ProxyType whose ProxyHost
\* holds no NUL byte, GoOptions(COptions(C)) equals C in IPv6Enabled,
\* UDPEnabled, ProxyType, ProxyHost, the four ports and the SaveData bytes,
\* and the copy is the same after FreeOptions has released the C struct
\* (the fields other than ProxyHost round-trip whatever the host is).
C1_RoundTrip ==
    ReadBack => /\ SameButHost(options, result)
                /\ ~HasNul(options.ProxyHost) => result.ProxyHost = options.ProxyHost

\* C1 witness: a SOCKS5 configuration with a two-byte host, four different
\* ports and two bytes of save data has been converted, read back and freed.
C1_Witness ==
    /\ optPc = "freed"
    /\ options.ProxyType = ToxProxyTypeSocks5
    /\ options.ProxyHost = <<65, 65>>
    /\ options.StartPort # options.EndPort
    /\ options.SaveData.elems = <<65, 0>>
    /\ result.ProxyHost = <<65, 65>>
    /\ result.SaveData.elems = <<65, 0>>
    /\ \A a \in Addr : ~heap[a].live

\* C6 as stated: COptions and GoOptions return a translated configuration
\* and no error for every input, whatever the proxy type.
C6_Total ==
    /\ optPc \in {"converted", "failed"} => ~c_options.isNull /\ throw = NilErr
    /\ optPc \in {"read", "defaulted"} => ~result.isNil /\ throw = NilErr

\* C6, amended: COptions and GoOptions always return; for a proxy type in
\* {None, Http, Socks5} they return a translated configuration and a nil
\* error, and for any other proxy type they return a nil configuration with
\* the error "unknown proxy type", COptions having allocated nothing.
C6_TotalOnKnownProxyTypes ==
    /\ optPc \in {"converted", "failed"} =>
          IF options.ProxyType \in KnownProxyTypes
          THEN ~c_options.isNull /\ throw = NilErr
          ELSE /\ c_options = NoStruct /\ throw = ErrUnknownProxyType
               /\ heap = EmptyHeap /\ heapLog = <<>>
    /\ optPc \in {"read", "defaulted"} =>
          IF c_options.proxy_type \in KnownCProxyTypes
          THEN ~result.isNil /\ throw = NilErr
          ELSE result = NoOptions /\ throw = ErrUnknownProxyType

\* C6 witness: COptions has refused a ToxOptions whose ProxyType is not one
\* of the three named values.
C6_Witness ==
    /\ optPc = "failed"
    /\ options.ProxyType = ToxProxyTypeOther
    /\ c_options = NoStruct
    /\ throw = ErrUnknownProxyType

\* the C struct COptions built is in hand
Converted == optPc \in {"converted", "read"}

\* C7 as stated: the tag is NONE exactly when SaveData has length 0 and
\* TOX_SAVE otherwise, and with the NONE tag the struct carries no buffer at
\* all: savedata_length is 0 and savedata_data points to no allocation.
C7_NoBufferWhenNone ==
    Converted =>
        /\ c_options.savedata_type = "TOX_SAVEDATA_TYPE_NONE" <=> GoLen(options.SaveData) = 0
        /\ GoLen(options.SaveData) # 0 => c_options.savedata_type = "TOX_SAVEDATA_TYPE_TOX_SAVE"
        /\ c_options.savedata_type = "TOX_SAVEDATA_TYPE_NONE" =>
              c_options.savedata_length = 0 /\ c_options.savedata_data = NULL

\* C7, amended: the tag is NONE exactly when SaveData has length 0 (nil or
\* empty) and TOX_SAVE otherwise; savedata_length is len(SaveData), so 0
\* with the NONE tag; savedata_data is always what slice2array's malloc
\* returned, which with the NONE tag is null or a live block of size 0.
C7_SaveDataTag ==
    Converted =>
        /\ c_options.savedata_type = "TOX_SAVEDATA_TYPE_NONE" <=> GoLen(options.SaveData) = 0
        /\ GoLen(options.SaveData) # 0 => c_options.savedata_type = "TOX_SAVEDATA_TYPE_TOX_SAVE"
        /\ c_options.savedata_length = GoLen(options.SaveData)
        /\ c_options.savedata_type = "TOX_SAVEDATA_TYPE_NONE" =>
              /\ c_options.savedata_length = 0
              /\ \/ c_options.savedata_data = NULL
                 \/ /\ heap[c_options.savedata_data].live
                    /\ heap[c_options.savedata_data].data = <<>>
        /\ c_options.savedata_type = "TOX_SAVEDATA_TYPE_TOX_SAVE" =>
              /\ c_options.savedata_data # NULL
              /\ heap[c_options.savedata_data].live
              /\ heap[c_options.savedata_data].data = options.SaveData.elems

\* C7 witness: COptions has converted an empty, non-nil SaveData: the tag is
\* NONE, the length 0, and the struct holds the block malloc(0) returned.
C7_Witness ==
    /\ optPc = "converted"
    /\ options.SaveData = Slice(<<>>)
    /\ c_options.savedata_type = "TOX_SAVEDATA_TYPE_NONE"
    /\ c_options.savedata_length = 0
    /\ c_options.savedata_data # NULL

---------------------------------------------------------------------------
(* The engine's error enums, and each operation's translation of the code  *)
(* the engine reported (the switch on c_error in each function of tox.go). *)

\* the values a TOX_ERR_NEW can hold: OK, the codes tox.go names, and two it does not
ErrNewCodes ==
    {"TOX_ERR_NEW_OK",
     "TOX_ERR_NEW_NULL",
     "TOX_ERR_NEW_MALLOC",
     "TOX_ERR_NEW_PORT_ALLOC",
     "TOX_ERR_NEW_PROXY_BAD_TYPE",
     "TOX_ERR_NEW_PROXY_BAD_HOST",
     "TOX_ERR_NEW_PROXY_BAD_PORT",
     "TOX_ERR_NEW_PROXY_NOT_FOUND",
     "TOX_ERR_NEW_LOAD_ENCRYPTED",
     "TOX_ERR_NEW_LOAD_BAD_FORMAT",
     "TOX_ERR_NEW_UNRECOGNIZED_1",
     "TOX_ERR_NEW_UNRECOGNIZED_2"}

\* the values a TOX_ERR_SET_INFO can hold: OK, the codes tox.go names, and two it does not
ErrSetInfoCodes ==
    {"TOX_ERR_SET_INFO_OK",
     "TOX_ERR_SET_INFO_NULL",
     "TOX_ERR_SET_INFO_TOO_LONG",
     "TOX_ERR_SET_INFO_UNRECOGNIZED_1",
     "TOX_ERR_SET_INFO_UNRECOGNIZED_2"}

\* the values a TOX_ERR_FRIEND_ADD can hold: OK, the codes tox.go names, and two it does not
ErrFriendAddCodes ==
    {"TOX_ERR_FRIEND_ADD_OK",
     "TOX_ERR_FRIEND_ADD_NULL",
     "TOX_ERR_FRIEND_ADD_TOO_LONG",
     "TOX_ERR_FRIEND_ADD_NO_MESSAGE",
     "TOX_ERR_FRIEND_ADD_OWN_KEY",
     "TOX_ERR_FRIEND_ADD_ALREADY_SENT",
     "TOX_ERR_FRIEND_ADD_BAD_CHECKSUM",
     "TOX_ERR_FRIEND_ADD_SET_NEW_NOSPAM",
     "TOX_ERR_FRIEND_ADD_MALLOC",
     "TOX_ERR_FRIEND_ADD_UNRECOGNIZED_1",
     "TOX_ERR_FRIEND_ADD_UNRECOGNIZED_2"}

\* the values a TOX_ERR_FRIEND_DELETE can hold: OK, the codes tox.go names, and two it does not
ErrFriendDeleteCodes ==
    {"TOX_ERR_FRIEND_DELETE_OK",
     "TOX_ERR_FRIEND_DELETE_FRIEND_NOT_FOUND",
     "TOX_ERR_FRIEND_DELETE_UNRECOGNIZED_1",
     "TOX_ERR_FRIEND_DELETE_UNRECOGNIZED_2"}

\* the values a TOX_ERR_FRIEND_QUERY can hold: OK, the codes tox.go names, and two it does not
ErrFriendQueryCodes ==
    {"TOX_ERR_FRIEND_QUERY_OK",
     "TOX_ERR_FRIEND_QUERY_NULL",
     "TOX_ERR_FRIEND_QUERY_FRIEND_NOT_FOUND",
     "TOX_ERR_FRIEND_QUERY_UNRECOGNIZED_1",
     "TOX_ERR_FRIEND_QUERY_UNRECOGNIZED_2"}

\* the values a TOX_ERR_FRIEND_GET_PUBLIC_KEY can hold: OK, the codes tox.go names, and two it does not
ErrFriendGetPublicKeyCodes ==
    {"TOX_ERR_FRIEND_GET_PUBLIC_KEY_OK",
     "TOX_ERR_FRIEND_GET_PUBLIC_KEY_FRIEND_NOT_FOUND",
     "TOX_ERR_FRIEND_GET_PUBLIC_KEY_UNRECOGNIZED_1",
     "TOX_ERR_FRIEND_GET_PUBLIC_KEY_UNRECOGNIZED_2"}

\* the values a TOX_ERR_FRIEND_BY_PUBLIC_KEY can hold: OK, the codes tox.go names, and two it does not
ErrFriendByPublicKeyCodes ==
    {"TOX_ERR_FRIEND_BY_PUBLIC_KEY_OK",
     "TOX_ERR_FRIEND_BY_PUBLIC_KEY_NULL",
     "TOX_ERR_FRIEND_BY_PUBLIC_KEY_NOT_FOUND",
     "TOX_ERR_FRIEND_BY_PUBLIC_KEY_UNRECOGNIZED_1",
     "TOX_ERR_FRIEND_BY_PUBLIC_KEY_UNRECOGNIZED_2"}

\* the values a TOX_ERR_FRIEND_GET_LAST_ONLINE can hold: OK, the codes tox.go names, and two it does not
ErrFriendGetLastOnlineCodes ==
    {"TOX_ERR_FRIEND_GET_LAST_ONLINE_OK",
     "TOX_ERR_FRIEND_GET_LAST_ONLINE_FRIEND_NOT_FOUND",
     "TOX_ERR_FRIEND_GET_LAST_ONLINE_UNRECOGNIZED_1",
     "TOX_ERR_FRIEND_GET_LAST_ONLINE_UNRECOGNIZED_2"}

\* the values a TOX_ERR_FRIEND_SEND_MESSAGE can hold: OK, the codes tox.go names, and two it does not
ErrFriendSendMessageCodes ==
    {"TOX_ERR_FRIEND_SEND_MESSAGE_OK",
     "TOX_ERR_FRIEND_SEND_MESSAGE_NULL",
     "TOX_ERR_FRIEND_SEND_MESSAGE_FRIEND_NOT_FOUND",
     "TOX_ERR_FRIEND_SEND_MESSAGE_FRIEND_NOT_CONNECTED",
     "TOX_ERR_FRIEND_SEND_MESSAGE_SENDQ",
     "TOX_ERR_FRIEND_SEND_MESSAGE_TOO_LONG",
     "TOX_ERR_FRIEND_SEND_MESSAGE_EMPTY",
     "TOX_ERR_FRIEND_SEND_MESSAGE_UNRECOGNIZED_1",
     "TOX_ERR_FRIEND_SEND_MESSAGE_UNRECOGNIZED_2"}

\* the values a TOX_ERR_FRIEND_CUSTOM_PACKET can hold: OK, the codes tox.go names, and two it does not
ErrFriendCustomPacketCodes ==
    {"TOX_ERR_FRIEND_CUSTOM_PACKET_OK",
     "TOX_ERR_FRIEND_CUSTOM_PACKET_NULL",
     "TOX_ERR_FRIEND_CUSTOM_PACKET_FRIEND_NOT_FOUND",
     "TOX_ERR_FRIEND_CUSTOM_PACKET_FRIEND_NOT_CONNECTED",
     "TOX_ERR_FRIEND_CUSTOM_PACKET_INVALID",
     "TOX_ERR_FRIEND_CUSTOM_PACKET_EMPTY",
     "TOX_ERR_FRIEND_CUSTOM_PACKET_TOO_LONG",
     "TOX_ERR_FRIEND_CUSTOM_PACKET_SENDQ",
     "TOX_ERR_FRIEND_CUSTOM_PACKET_UNRECOGNIZED_1",
     "TOX_ERR_FRIEND_CUSTOM_PACKET_UNRECOGNIZED_2"}

\* the values a TOX_ERR_BOOTSTRAP can hold: OK, the codes tox.go names, and two it does not
ErrBootstrapCodes ==
    {"TOX_ERR_BOOTSTRAP_OK",
     "TOX_ERR_BOOTSTRAP_NULL",
     "TOX_ERR_BOOTSTRAP_BAD_HOST",
     "TOX_ERR_BOOTSTRAP_BAD_PORT",
     "TOX_ERR_BOOTSTRAP_UNRECOGNIZED_1",
     "TOX_ERR_BOOTSTRAP_UNRECOGNIZED_2"}

\* New's switch without its default case: an unlisted code leaves throw nil
NewThrowNoDefault(c_error) ==
    IF c_error \in {"TOX_ERR_NEW_OK", "TOX_ERR_NEW_UNRECOGNIZED_1", "TOX_ERR_NEW_UNRECOGNIZED_2"}
    THEN NilErr
    ELSE "ToxErrNewNull"

\* New: the error for the code of the engine call
NewThrow(c_error) ==
    IF c_error = "TOX_ERR_NEW_OK" THEN NilErr
    ELSE CASE c_error = "TOX_ERR_NEW_NULL" -> "ToxErrNewNull"
           [] c_error = "TOX_ERR_NEW_MALLOC" -> "ToxErrNewMalloc"
           [] c_error = "TOX_ERR_NEW_PORT_ALLOC" -> "ToxErrNewPortAlloc"
           [] c_error = "TOX_ERR_NEW_PROXY_BAD_TYPE" -> "ToxErrNewProxyBadType"
           [] c_error = "TOX_ERR_NEW_PROXY_BAD_HOST" -> "ToxErrNewProxyBadHost"
           [] c_error = "TOX_ERR_NEW_PROXY_BAD_PORT" -> "ToxErrNewProxyBadPort"
           [] c_error = "TOX_ERR_NEW_PROXY_NOT_FOUND" -> "ToxErrNewProxyNotFound"
           [] c_error = "TOX_ERR_NEW_LOAD_ENCRYPTED" -> "ToxErrNewLoadEncrypted"
           [] c_error = "TOX_ERR_NEW_LOAD_BAD_FORMAT" -> "ToxErrNewLoadBadFormat"
           [] OTHER -> "ToxErrUnknown"

\* SetName: the error for the code of the engine call
SetNameThrow(c_error) ==
    IF c_error = "TOX_ERR_SET_INFO_OK" THEN NilErr
    ELSE CASE c_error = "TOX_ERR_SET_INFO_NULL" -> "ToxErrSetInfoNull"
           [] c_error = "TOX_ERR_SET_INFO_TOO_LONG" -> "ToxErrSetInfoTooLong"
           [] OTHER -> "ToxErrUnknown"

\* SetStatusMessage: the error for the code of the engine call
SetStatusMessageThrow(c_error) ==
    IF c_error = "TOX_ERR_SET_INFO_OK" THEN NilErr
    ELSE CASE c_error = "TOX_ERR_SET_INFO_NULL" -> "ToxErrSetInfoNull"
           [] c_error = "TOX_ERR_SET_INFO_TOO_LONG" -> "ToxErrSetInfoTooLong"
           [] OTHER -> "ToxErrUnknown"

\* FriendAdd's switch with the error of the case above pasted into NO_MESSAGE
FriendAddThrowPasted(c_error) ==
    IF c_error = "TOX_ERR_FRIEND_ADD_OK" THEN NilErr
    ELSE CASE c_error = "TOX_ERR_FRIEND_ADD_NULL" -> "ToxErrFriendAddNull"
           [] c_error = "TOX_ERR_FRIEND_ADD_TOO_LONG" -> "ToxErrFriendAddTooLong"
           [] c_error = "TOX_ERR_FRIEND_ADD_NO_MESSAGE" -> "ToxErrFriendAddTooLong"
           [] c_error = "TOX_ERR_FRIEND_ADD_OWN_KEY" -> "ToxErrFriendAddOwnKey"
           [] c_error = "TOX_ERR_FRIEND_ADD_ALREADY_SENT" -> "ToxErrFriendAddAlreadySent"
           [] c_error = "TOX_ERR_FRIEND_ADD_BAD_CHECKSUM" -> "ToxErrFriendAddBadChecksum"
           [] c_error = "TOX_ERR_FRIEND_ADD_SET_NEW_NOSPAM" -> "ToxErrFriendAddSetNewNoSpam"
           [] c_error = "TOX_ERR_FRIEND_ADD_MALLOC" -> "ToxErrFriendAddMalloc"
           [] OTHER -> "ToxErrUnknown"

\* FriendAdd: the error for the code of the engine call
FriendAddThrow(c_error) ==
    IF c_error = "TOX_ERR_FRIEND_ADD_OK" THEN NilErr
    ELSE CASE c_error = "TOX_ERR_FRIEND_ADD_NULL" -> "ToxErrFriendAddNull"
           [] c_error = "TOX_ERR_FRIEND_ADD_TOO_LONG" -> "ToxErrFriendAddTooLong"
           [] c_error = "TOX_ERR_FRIEND_ADD_NO_MESSAGE" -> "ToxErrFriendAddNoMessage"
           [] c_error = "TOX_ERR_FRIEND_ADD_OWN_KEY" -> "ToxErrFriendAddOwnKey"
           [] c_error = "TOX_ERR_FRIEND_ADD_ALREADY_SENT" -> "ToxErrFriendAddAlreadySent"
           [] c_error = "TOX_ERR_FRIEND_ADD_BAD_CHECKSUM" -> "ToxErrFriendAddBadChecksum"
           [] c_error = "TOX_ERR_FRIEND_ADD_SET_NEW_NOSPAM" -> "ToxErrFriendAddSetNewNoSpam"
           [] c_error = "TOX_ERR_FRIEND_ADD_MALLOC" -> "ToxErrFriendAddMalloc"
           [] OTHER -> "ToxErrUnknown"

\* FriendAddNoRequest: the error for the code of the engine call
FriendAddNoRequestThrow(c_error) ==
    IF c_error = "TOX_ERR_FRIEND_ADD_OK" THEN NilErr
    ELSE CASE c_error = "TOX_ERR_FRIEND_ADD_NULL" -> "ToxErrFriendAddNull"
           [] c_error = "TOX_ERR_FRIEND_ADD_TOO_LONG" -> "ToxErrFriendAddTooLong"
           [] c_error = "TOX_ERR_FRIEND_ADD_NO_MESSAGE" -> "ToxErrFriendAddNoMessage"
           [] c_error = "TOX_ERR_FRIEND_ADD_OWN_KEY" -> "ToxErrFriendAddOwnKey"
           [] c_error = "TOX_ERR_FRIEND_ADD_ALREADY_SENT" -> "ToxErrFriendAddAlreadySent"
           [] c_error = "TOX_ERR_FRIEND_ADD_BAD_CHECKSUM" -> "ToxErrFriendAddBadChecksum"
           [] c_error = "TOX_ERR_FRIEND_ADD_SET_NEW_NOSPAM" -> "ToxErrFriendAddSetNewNoSpam"
           [] c_error = "TOX_ERR_FRIEND_ADD_MALLOC" -> "ToxErrFriendAddMalloc"
           [] OTHER -> "ToxErrUnknown"

\* FriendDelete's switch with FRIEND_NOT_FOUND as its default
FriendDeleteThrowDefaultNotFound(c_error) ==
    IF c_error = "TOX_ERR_FRIEND_DELETE_OK" THEN NilErr
    ELSE "ToxErrFriendDeleteFriendNotFound"

\* FriendDelete: the error for the code of the engine call
FriendDeleteThrow(c_error) ==
    IF c_error = "TOX_ERR_FRIEND_DELETE_OK" THEN NilErr
    ELSE CASE c_error = "TOX_ERR_FRIEND_DELETE_FRIEND_NOT_FOUND" -> "ToxErrFriendDeleteFriendNotFound"
           [] OTHER -> "ToxErrUnknown"

\* FriendGetName: the error for the code of the size query
FriendGetNameSizeThrow(c_error) ==
    IF c_error = "TOX_ERR_FRIEND_QUERY_OK" THEN NilErr
    ELSE CASE c_error = "TOX_ERR_FRIEND_QUERY_NULL" -> "ToxErrFriendQueryNull"
           [] c_error = "TOX_ERR_FRIEND_QUERY_FRIEND_NOT_FOUND" -> "ToxErrFriendQueryFriendNotFound"
           [] OTHER -> "ToxErrUnknown"

\* FriendGetName: the error for the code of the fetch
FriendGetNameThrow(c_error) ==
    IF c_error = "TOX_ERR_FRIEND_QUERY_OK" THEN NilErr
    ELSE CASE c_error = "TOX_ERR_FRIEND_QUERY_NULL" -> "ToxErrFriendQueryNull"
           [] c_error = "TOX_ERR_FRIEND_QUERY_FRIEND_NOT_FOUND" -> "ToxErrFriendQueryFriendNotFound"
           [] OTHER -> "ToxErrUnknown"

\* FriendGetPublicKey: the error for the code of the engine call
FriendGetPublicKeyThrow(c_error) ==
    IF c_error = "TOX_ERR_FRIEND_GET_PUBLIC_KEY_OK" THEN NilErr
    ELSE CASE c_error = "TOX_ERR_FRIEND_GET_PUBLIC_KEY_FRIEND_NOT_FOUND" -> "ToxErrFriendGetPublicKeyFriendNotFound"
           [] OTHER -> "ToxErrUnknown"

\* FriendByPublicKey: the error for the code of the engine call
FriendByPublicKeyThrow(c_error) ==
    IF c_error = "TOX_ERR_FRIEND_BY_PUBLIC_KEY_OK" THEN NilErr
    ELSE CASE c_error = "TOX_ERR_FRIEND_BY_PUBLIC_KEY_NULL" -> "ToxErrFriendByPublicKeyNull"
           [] c_error = "TOX_ERR_FRIEND_BY_PUBLIC_KEY_NOT_FOUND" -> "ToxErrFriendByPublicKeyNotFound"
           [] OTHER -> "ToxErrUnknown"

\* FriendGetStatus: the error for the code of the engine call
FriendGetStatusThrow(c_error) ==
    IF c_error = "TOX_ERR_FRIEND_QUERY_OK" THEN NilErr
    ELSE CASE c_error = "TOX_ERR_FRIEND_QUERY_NULL" -> "ToxErrFriendQueryNull"
           [] c_error = "TOX_ERR_FRIEND_QUERY_FRIEND_NOT_FOUND" -> "ToxErrFriendQueryFriendNotFound"
           [] OTHER -> "ToxErrUnknown"

\* FriendGetStatusMessage: the error for the code of the size query
FriendGetStatusMessageSizeThrow(c_error) ==
    IF c_error = "TOX_ERR_FRIEND_QUERY_OK" THEN NilErr
    ELSE CASE c_error = "TOX_ERR_FRIEND_QUERY_NULL" -> "ToxErrFriendQueryNull"
           [] c_error = "TOX_ERR_FRIEND_QUERY_FRIEND_NOT_FOUND" -> "ToxErrFriendQueryFriendNotFound"
           [] OTHER -> "ToxErrUnknown"

\* FriendGetStatusMessage: the error for the code of the fetch
FriendGetStatusMessageThrow(c_error) ==
    IF c_error = "TOX_ERR_FRIEND_QUERY_OK" THEN NilErr
    ELSE CASE c_error = "TOX_ERR_FRIEND_QUERY_NULL" -> "ToxErrFriendQueryNull"
           [] c_error = "TOX_ERR_FRIEND_QUERY_FRIEND_NOT_FOUND" -> "ToxErrFriendQueryFriendNotFound"
           [] OTHER -> "ToxErrUnknown"

\* FriendGetConnectionStatus: the error for the code of the engine call
FriendGetConnectionStatusThrow(c_error) ==
    IF c_error = "TOX_ERR_FRIEND_QUERY_OK" THEN NilErr
    ELSE CASE c_error = "TOX_ERR_FRIEND_QUERY_NULL" -> "ToxErrFriendQueryNull"
           [] c_error = "TOX_ERR_FRIEND_QUERY_FRIEND_NOT_FOUND" -> "ToxErrFriendQueryFriendNotFound"
           [] OTHER -> "ToxErrUnknown"

\* FriendGetLastOnline: the error for the code of the engine call
FriendGetLastOnlineThrow(c_error) ==
    IF c_error = "TOX_ERR_FRIEND_GET_LAST_ONLINE_OK" THEN NilErr
    ELSE CASE c_error = "TOX_ERR_FRIEND_GET_LAST_ONLINE_FRIEND_NOT_FOUND" -> "ToxErrFriendGetLastOnlineFriendNotFound"
           [] OTHER -> "ToxErrUnknown"

\* FriendSendMessage: the error for the code of the engine call
FriendSendMessageThrow(c_error) ==
    IF c_error = "TOX_ERR_FRIEND_SEND_MESSAGE_OK" THEN NilErr
    ELSE CASE c_error = "TOX_ERR_FRIEND_SEND_MESSAGE_NULL" -> "ToxErrFriendSendMessageNull"
           [] c_error = "TOX_ERR_FRIEND_SEND_MESSAGE_FRIEND_NOT_FOUND" -> "ToxErrFriendSendMessageFriendNotFound"
           [] c_error = "TOX_ERR_FRIEND_SEND_MESSAGE_FRIEND_NOT_CONNECTED" -> "ToxErrFriendSendMessageFriendNotConnected"
           [] c_error = "TOX_ERR_FRIEND_SEND_MESSAGE_SENDQ" -> "ToxErrFriendSendMessageSendQ"
           [] c_error = "TOX_ERR_FRIEND_SEND_MESSAGE_TOO_LONG" -> "ToxErrFriendSendMessageTooLong"
           [] c_error = "TOX_ERR_FRIEND_SEND_MESSAGE_EMPTY" -> "ToxErrFriendSendMessageEmpty"
           [] OTHER -> "ToxErrUnknown"

\* FriendSendLosslessPacket: the error for the code of the engine call
FriendSendLosslessPacketThrow(c_error) ==
    IF c_error = "TOX_ERR_FRIEND_CUSTOM_PACKET_OK" THEN NilErr
    ELSE CASE c_error = "TOX_ERR_FRIEND_CUSTOM_PACKET_NULL" -> "ToxErrFriendCustomPacketNull"
           [] c_error = "TOX_ERR_FRIEND_CUSTOM_PACKET_FRIEND_NOT_FOUND" -> "ToxErrFriendCustomPacketFriendNotFound"
           [] c_error = "TOX_ERR_FRIEND_CUSTOM_PACKET_FRIEND_NOT_CONNECTED" -> "ToxErrFriendCustomPacketFriendNotConnected"
           [] c_error = "TOX_ERR_FRIEND_CUSTOM_PACKET_INVALID" -> "ToxErrFriendCustomPacketInvalid"
           [] c_error = "TOX_ERR_FRIEND_CUSTOM_PACKET_EMPTY" -> "ToxErrFriendCustomPacketEmpty"
           [] c_error = "TOX_ERR_FRIEND_CUSTOM_PACKET_TOO_LONG" -> "ToxErrFriendCustomPacketTooLong"
           [] c_error = "TOX_ERR_FRIEND_CUSTOM_PACKET_SENDQ" -> "ToxErrFriendCustomPacketSendQ"
           [] OTHER -> "ToxErrUnknown"

\* Bootstrap: the error for the code of the engine call
BootstrapThrow(c_error) ==
    IF c_error = "TOX_ERR_BOOTSTRAP_OK" THEN NilErr
    ELSE CASE c_error = "TOX_ERR_BOOTSTRAP_NULL" -> "ToxErrBootstrapNull"
           [] c_error = "TOX_ERR_BOOTSTRAP_BAD_HOST" -> "ToxErrBootstrapBadHost"
           [] c_error = "TOX_ERR_BOOTSTRAP_BAD_PORT" -> "ToxErrBootstrapBadPort"
           [] OTHER -> "ToxErrUnknown"

---------------------------------------------------------------------------
(* The API on a black-box engine: each operation makes its engine call,    *)
(* the engine returns any value and any code of the call's error enum, and *)
(* the operation returns what its code computes from them.                 *)

\* types.go: the Go enumerations
ToxConnectionNone == 0
ToxConnectionTCP == 1
ToxConnectionUDP == 2
ToxUserStatusNone == 0
ToxUserStatusAway == 1
ToxUserStatusBusy == 2
ToxMessageTypeNormal == 0
ToxMessageTypeAction == 1

\* the values of the engine's enumerations, one of each unknown to the binding
CConnections == {"TOX_CONNECTION_NONE", "TOX_CONNECTION_TCP", "TOX_CONNECTION_UDP",
                 "TOX_CONNECTION_UNRECOGNIZED"}
CUserStatuses == {"TOX_USER_STATUS_NONE", "TOX_USER_STATUS_AWAY", "TOX_USER_STATUS_BUSY",
                  "TOX_USER_STATUS_UNRECOGNIZED"}
CMessageTypes == {"TOX_MESSAGE_TYPE_NORMAL", "TOX_MESSAGE_TYPE_ACTION",
                  "TOX_MESSAGE_TYPE_UNRECOGNIZED"}

\* the handles tox_new can return, null included
Handles == {NULL, 1, 2}
\* the uint32 numbers the engine returns (friend numbers, message ids)
EngineNumbers == {0, 7, 2147483647}
\* the buffers the engine hands out
EngineBuffers == SeqsUpTo(ByteSet, MaxBufLen)
\* the timestamps the engine returns
EngineTimes == {0, 1500000000}
\* the zero time.Time, which precedes every time.Unix of an engine timestamp
ZeroTime == -1

\* the options New is called with: nil, or a ToxOptions (an IPv6, TCP-only
\* one on the default ports, with or without a known proxy type, a host of at
\* most one byte and save data of at most one byte)
NewArgs ==
    {NoOptions} \cup
    {o \in ToxOptionsSet :
        /\ o.IPv6Enabled /\ ~o.UDPEnabled /\ o.StartPort = 0
        /\ o.ProxyType \in {ToxProxyTypeSocks5, ToxProxyTypeOther}
        /\ Len(o.ProxyHost) <= 1 /\ GoLen(o.SaveData) <= 1}

\* New: every outcome of the call on heap h, as [ret, heap, log]
New(opts, h) ==
    LET pres == IF opts.isNil
                THEN {[c |-> NoStruct, throw |-> NilErr, heap |-> h, log |-> <<>>]}
                ELSE COptions(opts, h)
        Run(pre) ==
            IF pre.throw # NilErr
            THEN {[ret |-> Ret("New", <<>>, NULL, 0, NilSlice, pre.throw),
                   heap |-> pre.heap, log |-> pre.log]}
            ELSE LET deferred == IF opts.isNil THEN <<>> ELSE FreeOptions(pre.c)
                 IN  {[ret |-> [Ret("New", <<c_error>>, c_tox, 0, NilSlice, NewThrow(c_error))
                                  EXCEPT !.tox = IF c_error # "TOX_ERR_NEW_OK" THEN NoTox
                                                 ELSE [isNil |-> FALSE, handle |-> c_tox]],
                       heap |-> FreeAll(pre.heap, deferred),
                       log |-> pre.log \o <<[op |-> "tox_new", addr |-> NULL]>>
                                       \o FreeLog(deferred)]
                      : c_error \in ErrNewCodes, c_tox \in Handles}
    IN  UNION {Run(pre) : pre \in pres}

CallNew ==
    /\ \E opts \in NewArgs : \E out \in New(opts, heap) :
          /\ call' = out.ret
          /\ heap' = out.heap
          /\ heapLog' = out.log
    /\ UNCHANGED <<optVars, evVars, moreVars>>

\* the decoded public key of a seed node: hex.DecodeString fails, or yields
\* a key of the wrong length, or yields a key of ToxPublicKeySize bytes
SeedKeys == {"malformed hex", "wrong length", "well formed"}

Bootstrap ==
    /\ \E key \in SeedKeys :
          \/ /\ key = "malformed hex"
             /\ call' = Ret("Bootstrap", <<>>, 0, 0, NilSlice, "hex.InvalidByteError")
          \/ /\ key = "wrong length"
             /\ call' = Ret("Bootstrap", <<>>, 0, 0, NilSlice, "errors.New(invalid public key)")
          \/ /\ key = "well formed"
             /\ \E c_error \in ErrBootstrapCodes :
                   call' = Ret("Bootstrap", <<c_error>>, 0, 0, NilSlice, BootstrapThrow(c_error))
    /\ UNCHANGED <<optVars, heapVars, evVars, moreVars>>

SetName ==
    /\ \E c_error \in ErrSetInfoCodes :
          call' = Ret("SetName", <<c_error>>, 0, 0, NilSlice, SetNameThrow(c_error))
    /\ UNCHANGED <<optVars, heapVars, evVars, moreVars>>

SetStatusMessage ==
    /\ \E c_error \in ErrSetInfoCodes :
          call' = Ret("SetStatusMessage", <<c_error>>, 0, 0, NilSlice,
                      SetStatusMessageThrow(c_error))
    /\ UNCHANGED <<optVars, heapVars, evVars, moreVars>>

FriendAdd ==
    /\ \E c_error \in ErrFriendAddCodes, c_friend_number \in EngineNumbers :
          call' = Ret("FriendAdd", <<c_error>>, c_friend_number,
                      IF c_error = "TOX_ERR_FRIEND_ADD_OK" THEN c_friend_number ELSE 0,
                      NilSlice, FriendAddThrow(c_error))
    /\ UNCHANGED <<optVars, heapVars, evVars, moreVars>>

FriendAddNoRequest ==
    /\ \E c_error \in ErrFriendAddCodes, c_friend_number \in EngineNumbers :
          call' = Ret("FriendAddNoRequest", <<c_error>>, c_friend_number,
                      IF c_error = "TOX_ERR_FRIEND_ADD_OK" THEN c_friend_number ELSE 0,
                      NilSlice, FriendAddNoRequestThrow(c_error))
    /\ UNCHANGED <<optVars, heapVars, evVars, moreVars>>

FriendDelete ==
    /\ \E c_error \in ErrFriendDeleteCodes :
          call' = Ret("FriendDelete", <<c_error>>, 0, 0, NilSlice, FriendDeleteThrow(c_error))
    /\ UNCHANGED <<optVars, heapVars, evVars, moreVars>>

\* FriendGetName that keeps its buffer when the fetch fails
FriendGetNameKeepsBuffer ==
    /\ \E c1 \in ErrFriendQueryCodes, c2 \in ErrFriendQueryCodes, bytes \in EngineBuffers :
          LET c_length == Len(bytes)
              name == MakeBytes(c_length)
              filled == IF c_length > 0 THEN Written(name, bytes) ELSE name
          IN  call' = IF c1 # "TOX_ERR_FRIEND_QUERY_OK"
                      THEN Ret("FriendGetName", <<c1>>, c_length, 0, NilSlice, FriendGetNameSizeThrow(c1))
                      ELSE IF c2 # "TOX_ERR_FRIEND_QUERY_OK"
                      THEN Ret("FriendGetName", <<c1, c2>>, c_length, 0, filled, FriendGetNameThrow(c2))
                      ELSE Ret("FriendGetName", <<c1, c2>>, c_length, 0, filled, NilErr)
    /\ UNCHANGED <<optVars, heapVars, evVars, moreVars>>

\* the two-step queries: the size query reports c_length, then the fetch
\* writes into make([]byte, c_length) through a pointer to its first byte
FriendGetName ==
    /\ \E c1 \in ErrFriendQueryCodes, c2 \in ErrFriendQueryCodes, bytes \in EngineBuffers :
          LET c_length == Len(bytes)
              name == MakeBytes(c_length)
              filled == IF c_length > 0 THEN Written(name, bytes) ELSE name
          IN  call' = IF c1 # "TOX_ERR_FRIEND_QUERY_OK"
                      THEN Ret("FriendGetName", <<c1>>, c_length, 0, NilSlice, FriendGetNameSizeThrow(c1))
                      ELSE IF c2 # "TOX_ERR_FRIEND_QUERY_OK"
                      THEN Ret("FriendGetName", <<c1, c2>>, c_length, 0, NilSlice, FriendGetNameThrow(c2))
                      ELSE Ret("FriendGetName", <<c1, c2>>, c_length, 0, filled, NilErr)
    /\ UNCHANGED <<optVars, heapVars, evVars, moreVars>>

FriendGetStatusMessage ==
    /\ \E c1 \in ErrFriendQueryCodes, c2 \in ErrFriendQueryCodes, bytes \in EngineBuffers :
          LET c_length == Len(bytes)
              message == MakeBytes(c_length)
              filled == IF c_length > 0 THEN Written(message, bytes) ELSE message
          IN  call' = IF c1 # "TOX_ERR_FRIEND_QUERY_OK"
                      THEN Ret("FriendGetStatusMessage", <<c1>>, c_length, 0, NilSlice, FriendGetStatusMessageSizeThrow(c1))
                      ELSE IF c2 # "TOX_ERR_FRIEND_QUERY_OK"
                      THEN Ret("FriendGetStatusMessage", <<c1, c2>>, c_length, 0, NilSlice, FriendGetStatusMessageThrow(c2))
                      ELSE Ret("FriendGetStatusMessage", <<c1, c2>>, c_length, 0, filled, NilErr)
    /\ UNCHANGED <<optVars, heapVars, evVars, moreVars>>

FriendGetPublicKey ==
    /\ \E c_error \in ErrFriendGetPublicKeyCodes :
          call' = Ret("FriendGetPublicKey", <<c_error>>, 0, 0, NilSlice,
                      FriendGetPublicKeyThrow(c_error))
    /\ UNCHANGED <<optVars, heapVars, evVars, moreVars>>

FriendByPublicKey ==
    /\ \E c_error \in ErrFriendByPublicKeyCodes, c_friend_number \in EngineNumbers :
          call' = Ret("FriendByPublicKey", <<c_error>>, c_friend_number,
                      IF c_error = "TOX_ERR_FRIEND_BY_PUBLIC_KEY_OK" THEN c_friend_number ELSE 0,
                      NilSlice, FriendByPublicKeyThrow(c_error))
    /\ UNCHANGED <<optVars, heapVars, evVars, moreVars>>

\* the switch of the getters on a TOX_USER_STATUS: anything else is None
GetterUserStatus(c_status) ==
    CASE c_status = "TOX_USER_STATUS_AWAY" -> ToxUserStatusAway
      [] c_status = "TOX_USER_STATUS_BUSY" -> ToxUserStatusBusy
      [] OTHER                             -> ToxUserStatusNone

\* the switch of the getters on a TOX_CONNECTION: anything else is None
GetterConnectionStatus(c_connection_status) ==
    CASE c_connection_status = "TOX_CONNECTION_TCP" -> ToxConnectionTCP
      [] c_connection_status = "TOX_CONNECTION_UDP" -> ToxConnectionUDP
      [] OTHER                                      -> ToxConnectionNone

FriendGetStatus ==
    /\ \E c_error \in ErrFriendQueryCodes, c_status \in CUserStatuses :
          call' = Ret("FriendGetStatus", <<c_error>>, 0,
                      IF c_error = "TOX_ERR_FRIEND_QUERY_OK"
                      THEN GetterUserStatus(c_status) ELSE ToxUserStatusNone,
                      NilSlice, FriendGetStatusThrow(c_error))
    /\ UNCHANGED <<optVars, heapVars, evVars, moreVars>>

FriendGetConnectionStatus ==
    /\ \E c_error \in ErrFriendQueryCodes, c_connection_status \in CConnections :
          call' = Ret("FriendGetConnectionStatus", <<c_error>>, 0,
                      IF c_error = "TOX_ERR_FRIEND_QUERY_OK"
                      THEN GetterConnectionStatus(c_connection_status) ELSE ToxConnectionNone,
                      NilSlice, FriendGetConnectionStatusThrow(c_error))
    /\ UNCHANGED <<optVars, heapVars, evVars, moreVars>>

FriendGetLastOnline ==
    /\ \E c_error \in ErrFriendGetLastOnlineCodes, c_timestamp \in EngineTimes :
          call' = Ret("FriendGetLastOnline", <<c_error>>, c_timestamp,
                      IF c_error = "TOX_ERR_FRIEND_GET_LAST_ONLINE_OK"
                      THEN c_timestamp ELSE ZeroTime,
                      NilSlice, FriendGetLastOnlineThrow(c_error))
    /\ UNCHANGED <<optVars, heapVars, evVars, moreVars>>

\* FriendSendMessage that returns the engine's number whatever the code
FriendSendMessageAlwaysNumber ==
    /\ \E c_error \in ErrFriendSendMessageCodes, c_message_id \in EngineNumbers :
          call' = Ret("FriendSendMessage", <<c_error>>, c_message_id, c_message_id,
                      NilSlice, FriendSendMessageThrow(c_error))
    /\ UNCHANGED <<optVars, heapVars, evVars, moreVars>>

FriendSendMessage ==
    /\ \E c_error \in ErrFriendSendMessageCodes, c_message_id \in EngineNumbers :
          call' = Ret("FriendSendMessage", <<c_error>>, c_message_id,
                      IF c_error = "TOX_ERR_FRIEND_SEND_MESSAGE_OK" THEN c_message_id ELSE 0,
                      NilSlice, FriendSendMessageThrow(c_error))
    /\ UNCHANGED <<optVars, heapVars, evVars, moreVars>>

FriendSendLosslessPacket ==
    /\ \E c_error \in ErrFriendCustomPacketCodes :
          call' = Ret("FriendSendLosslessPacket", <<c_error>>, 0, 0, NilSlice,
                      FriendSendLosslessPacketThrow(c_error))
    /\ UNCHANGED <<optVars, heapVars, evVars, moreVars>>

InitApi ==
    /\ heap = EmptyHeap
    /\ heapLog = <<>>
    /\ options = NoOptions
    /\ c_options = NoStruct
    /\ result = NoOptions
    /\ throw = NilErr
    /\ optPc = "none"
    /\ call = NoCall
    /\ EvIdle

NextApi ==
    \/ CallNew \/ Bootstrap \/ SetName \/ SetStatusMessage
    \/ FriendAdd \/ FriendAddNoRequest \/ FriendDelete
    \/ FriendGetName \/ FriendGetPublicKey \/ FriendByPublicKey
    \/ FriendGetStatus \/ FriendGetStatusMessage \/ FriendGetConnectionStatus
    \/ FriendGetLastOnline \/ FriendSendMessage \/ FriendSendLosslessPacket

SpecApi == InitApi /\ [][NextApi]_vars

---------------------------------------------------------------------------
(* Claims about the error taxonomy and about New. *)

\* the operation families with, for each, its operations, its OK code and
\* its known codes, each paired with the error named after it in errors.go
Families ==
    {
    [family |-> "creation",
     ops |-> {"New"},
     ok |-> "TOX_ERR_NEW_OK",
     named |-> {<<"TOX_ERR_NEW_NULL", "ToxErrNewNull">>,
                <<"TOX_ERR_NEW_MALLOC", "ToxErrNewMalloc">>,
                <<"TOX_ERR_NEW_PORT_ALLOC", "ToxErrNewPortAlloc">>,
                <<"TOX_ERR_NEW_PROXY_BAD_TYPE", "ToxErrNewProxyBadType">>,
                <<"TOX_ERR_NEW_PROXY_BAD_HOST", "ToxErrNewProxyBadHost">>,
                <<"TOX_ERR_NEW_PROXY_BAD_PORT", "ToxErrNewProxyBadPort">>,
                <<"TOX_ERR_NEW_PROXY_NOT_FOUND", "ToxErrNewProxyNotFound">>,
                <<"TOX_ERR_NEW_LOAD_ENCRYPTED", "ToxErrNewLoadEncrypted">>,
                <<"TOX_ERR_NEW_LOAD_BAD_FORMAT", "ToxErrNewLoadBadFormat">>}],
    [family |-> "bootstrap",
     ops |-> {"Bootstrap"},
     ok |-> "TOX_ERR_BOOTSTRAP_OK",
     named |-> {<<"TOX_ERR_BOOTSTRAP_NULL", "ToxErrBootstrapNull">>,
                <<"TOX_ERR_BOOTSTRAP_BAD_HOST", "ToxErrBootstrapBadHost">>,
                <<"TOX_ERR_BOOTSTRAP_BAD_PORT", "ToxErrBootstrapBadPort">>}],
    [family |-> "info-set",
     ops |-> {"SetName", "SetStatusMessage"},
     ok |-> "TOX_ERR_SET_INFO_OK",
     named |-> {<<"TOX_ERR_SET_INFO_NULL", "ToxErrSetInfoNull">>,
                <<"TOX_ERR_SET_INFO_TOO_LONG", "ToxErrSetInfoTooLong">>}],
    [family |-> "friend-add",
     ops |-> {"FriendAdd", "FriendAddNoRequest"},
     ok |-> "TOX_ERR_FRIEND_ADD_OK",
     named |-> {<<"TOX_ERR_FRIEND_ADD_NULL", "ToxErrFriendAddNull">>,
                <<"TOX_ERR_FRIEND_ADD_TOO_LONG", "ToxErrFriendAddTooLong">>,
                <<"TOX_ERR_FRIEND_ADD_NO_MESSAGE", "ToxErrFriendAddNoMessage">>,
                <<"TOX_ERR_FRIEND_ADD_OWN_KEY", "ToxErrFriendAddOwnKey">>,
                <<"TOX_ERR_FRIEND_ADD_ALREADY_SENT", "ToxErrFriendAddAlreadySent">>,
                <<"TOX_ERR_FRIEND_ADD_BAD_CHECKSUM", "ToxErrFriendAddBadChecksum">>,
                <<"TOX_ERR_FRIEND_ADD_SET_NEW_NOSPAM", "ToxErrFriendAddSetNewNoSpam">>,
                <<"TOX_ERR_FRIEND_ADD_MALLOC", "ToxErrFriendAddMalloc">>}],
    [family |-> "friend-delete",
     ops |-> {"FriendDelete"},
     ok |-> "TOX_ERR_FRIEND_DELETE_OK",
     named |-> {<<"TOX_ERR_FRIEND_DELETE_FRIEND_NOT_FOUND", "ToxErrFriendDeleteFriendNotFound">>}],
    [family |-> "friend-query",
     ops |-> {"FriendGetName", "FriendGetStatus", "FriendGetStatusMessage", "FriendGetConnectionStatus"},
     ok |-> "TOX_ERR_FRIEND_QUERY_OK",
     named |-> {<<"TOX_ERR_FRIEND_QUERY_NULL", "ToxErrFriendQueryNull">>,
                <<"TOX_ERR_FRIEND_QUERY_FRIEND_NOT_FOUND", "ToxErrFriendQueryFriendNotFound">>}],
    [family |-> "friend-by-key",
     ops |-> {"FriendByPublicKey"},
     ok |-> "TOX_ERR_FRIEND_BY_PUBLIC_KEY_OK",
     named |-> {<<"TOX_ERR_FRIEND_BY_PUBLIC_KEY_NULL", "ToxErrFriendByPublicKeyNull">>,
                <<"TOX_ERR_FRIEND_BY_PUBLIC_KEY_NOT_FOUND", "ToxErrFriendByPublicKeyNotFound">>}],
    [family |-> "friend-get-public-key",
     ops |-> {"FriendGetPublicKey"},
     ok |-> "TOX_ERR_FRIEND_GET_PUBLIC_KEY_OK",
     named |-> {<<"TOX_ERR_FRIEND_GET_PUBLIC_KEY_FRIEND_NOT_FOUND", "ToxErrFriendGetPublicKeyFriendNotFound">>}],
    [family |-> "friend-last-online",
     ops |-> {"FriendGetLastOnline"},
     ok |-> "TOX_ERR_FRIEND_GET_LAST_ONLINE_OK",
     named |-> {<<"TOX_ERR_FRIEND_GET_LAST_ONLINE_FRIEND_NOT_FOUND", "ToxErrFriendGetLastOnlineFriendNotFound">>}],
    [family |-> "message-send",
     ops |-> {"FriendSendMessage"},
     ok |-> "TOX_ERR_FRIEND_SEND_MESSAGE_OK",
     named |-> {<<"TOX_ERR_FRIEND_SEND_MESSAGE_NULL", "ToxErrFriendSendMessageNull">>,
                <<"TOX_ERR_FRIEND_SEND_MESSAGE_FRIEND_NOT_FOUND", "ToxErrFriendSendMessageFriendNotFound">>,
                <<"TOX_ERR_FRIEND_SEND_MESSAGE_FRIEND_NOT_CONNECTED", "ToxErrFriendSendMessageFriendNotConnected">>,
                <<"TOX_ERR_FRIEND_SEND_MESSAGE_SENDQ", "ToxErrFriendSendMessageSendQ">>,
                <<"TOX_ERR_FRIEND_SEND_MESSAGE_TOO_LONG", "ToxErrFriendSendMessageTooLong">>,
                <<"TOX_ERR_FRIEND_SEND_MESSAGE_EMPTY", "ToxErrFriendSendMessageEmpty">>}],
    [family |-> "custom-packet-send",
     ops |-> {"FriendSendLosslessPacket"},
     ok |-> "TOX_ERR_FRIEND_CUSTOM_PACKET_OK",
     named |-> {<<"TOX_ERR_FRIEND_CUSTOM_PACKET_NULL", "ToxErrFriendCustomPacketNull">>,
                <<"TOX_ERR_FRIEND_CUSTOM_PACKET_FRIEND_NOT_FOUND", "ToxErrFriendCustomPacketFriendNotFound">>,
                <<"TOX_ERR_FRIEND_CUSTOM_PACKET_FRIEND_NOT_CONNECTED", "ToxErrFriendCustomPacketFriendNotConnected">>,
                <<"TOX_ERR_FRIEND_CUSTOM_PACKET_INVALID", "ToxErrFriendCustomPacketInvalid">>,
                <<"TOX_ERR_FRIEND_CUSTOM_PACKET_EMPTY", "ToxErrFriendCustomPacketEmpty">>,
                <<"TOX_ERR_FRIEND_CUSTOM_PACKET_TOO_LONG", "ToxErrFriendCustomPacketTooLong">>,
                <<"TOX_ERR_FRIEND_CUSTOM_PACKET_SENDQ", "ToxErrFriendCustomPacketSendQ">>}]
    }

FamilyOf(op) == CHOOSE f \in Families : op \in f.ops
KnownCodes(f) == {p[1] : p \in f.named}
NamedError(f, code) == (CHOOSE p \in f.named : p[1] = code)[2]

\* the last call reached the engine; the code that decided its result is
\* the last one the engine reported
EngineReported == call.codes # <<>>
DecidingCode == call.codes[Len(call.codes)]

\* C2: for every operation of every family, when the engine reports a
\* non-OK code outside the family's known set the operation returns
\* ToxErrUnknown (it returns, so it has not panicked).
C2_UnknownCode ==
    EngineReported =>
        LET f == FamilyOf(call.op)
        IN  DecidingCode \notin KnownCodes(f) \cup {f.ok} => call.throw = "ToxErrUnknown"

\* C2 witness: the fetch of FriendGetName has reported a code the binding
\* does not know, after a successful size query, and the call returned
\* ToxErrUnknown with a nil name.
C2_Witness ==
    /\ call.op = "FriendGetName"
    /\ call.codes = <<"TOX_ERR_FRIEND_QUERY_OK", "TOX_ERR_FRIEND_QUERY_UNRECOGNIZED_2">>
    /\ call.throw = "ToxErrUnknown"
    /\ call.buf = NilSlice

\* C3: for every operation of every family, the OK code yields a nil error
\* and each known code yields the family's error named after that code,
\* which is neither nil nor ToxErrUnknown; within a family the named errors
\* of two different codes are different error values.
C3_KnownCodes ==
    /\ \A f \in Families : \A p \in f.named, q \in f.named : p[1] # q[1] => p[2] # q[2]
    /\ EngineReported =>
          LET f == FamilyOf(call.op)
          IN  /\ DecidingCode = f.ok => call.throw = NilErr
              /\ DecidingCode \in KnownCodes(f) =>
                    /\ call.throw = NamedError(f, DecidingCode)
                    /\ call.throw \notin {NilErr, "ToxErrUnknown"}

\* C3 witness: FriendAdd has returned the error of NO_MESSAGE, which is not
\* that of TOO_LONG.
C3_Witness ==
    /\ call.op = "FriendAdd"
    /\ call.codes = <<"TOX_ERR_FRIEND_ADD_NO_MESSAGE">>
    /\ call.throw = "ToxErrFriendAddNoMessage"
    /\ call.num = 0

\* C4: every call of New returns either a non-nil Instance holding the
\* handle the engine returned, with a nil error (the creation code is OK),
\* or a nil Instance with a non-nil error (any other code, or options
\* COptions refused); never both, never neither.
C4_NewOutcome ==
    call.op = "New" =>
        /\ call.tox.isNil <=> call.throw # NilErr
        /\ ~call.tox.isNil => /\ call.codes = <<"TOX_ERR_NEW_OK">>
                              /\ call.tox.handle = call.eng
        /\ call.codes # <<"TOX_ERR_NEW_OK">> => call.tox.isNil /\ call.throw # NilErr

\* C4 witness: New has returned an Instance around the handle the engine
\* returned, and no error.
C4_Witness ==
    /\ call.op = "New"
    /\ call.codes = <<"TOX_ERR_NEW_OK">>
    /\ ~call.tox.isNil
    /\ call.tox.handle = 2
    /\ call.throw = NilErr

\* the places of the log where a block was allocated, freed, or tox_new ran
MallocsAt == {i \in 1..Len(heapLog) : heapLog[i].op = "malloc" /\ heapLog[i].addr # NULL}
FreesAt == {j \in 1..Len(heapLog) : heapLog[j].op = "free" /\ heapLog[j].addr # NULL}
ToxNewAt == {k \in 1..Len(heapLog) : heapLog[k].op = "tox_new"}

\* C5: when New has returned, on every path, each block COptions allocated
\* for the call has been freed exactly once, after tox_new returned;
\* nothing else was freed and no block is left allocated.
C5_OptionsReleased ==
    call.op = "New" =>
        /\ \A i \in MallocsAt :
              LET frees == {j \in FreesAt : heapLog[j].addr = heapLog[i].addr}
              IN  /\ Cardinality(frees) = 1
                  /\ \A j \in frees : j > i /\ \E k \in ToxNewAt : k < j
        /\ \A j \in FreesAt : \E i \in MallocsAt : i < j /\ heapLog[i].addr = heapLog[j].addr
        /\ \A i \in MallocsAt, j \in MallocsAt : i # j => heapLog[i].addr # heapLog[j].addr
        /\ \A a \in Addr : ~heap[a].live

\* C5 witness: New has returned an engine creation error after COptions
\* allocated the proxy host and the save data, and both blocks were freed.
C5_Witness ==
    /\ call.op = "New"
    /\ call.throw = "ToxErrNewPortAlloc"
    /\ Cardinality(MallocsAt) = 2
    /\ Cardinality(FreesAt) = 2
    /\ \A a \in Addr : ~heap[a].live

---------------------------------------------------------------------------
(* Event dispatch: one Instance, the SetOn<K> functions, Process and the   *)
(* callbacks the engine runs from inside tox_iterate.                      *)

\* the event kinds: the x of GEN_CALLBACK_API(x)
Kinds == {"self_connection_status", "friend_name", "friend_request",
          "friend_status_message", "friend_status", "friend_connection_status",
          "friend_message", "friend_lossless_packet"}

\* the handler fields of the Tox struct
Fields == {"onSelfConnectionStatus", "onFriendRequest", "onFriendName",
           "onFriendStatus", "onFriendStatusMessage", "onFriendConnectionStatus",
           "onFriendMessage", "onFriendLosslessPacket"}

\* Go func values: nil, or one of two handlers of the caller
NilFunc == "nil"
Funcs == {"h1", "h2"}

\* the Instance, as the pointer handed to the engine as user data
TheTox == "tox"

\* the handle tox_new returned for the Instance
TheHandle == 1

\* an entry of the engine's callback table: nothing registered, or the
\* exported Go function callback_<x> with its user data
NoCallback == [fn |-> "none", user_data |-> "NULL"]
register(x, t) == [fn |-> x, user_data |-> t]

\* the friend numbers, public keys and events the engine raises
FriendNumbers == {7}
PublicKeys == {"pk"}
NoEnum == "-"
NoKey == "-"
EngineEvent(kinds, friends, keys, enums, bufs) ==
    [kind : kinds, c_friend_number : friends, c_public_key : keys,
     c_enum : enums, c_data : bufs]
EngineEvents ==
    EngineEvent({"self_connection_status"}, {0}, {NoKey}, CConnections, {<<>>})
    \cup EngineEvent({"friend_name", "friend_status_message", "friend_lossless_packet"},
                     FriendNumbers, {NoKey}, {NoEnum}, EngineBuffers)
    \cup EngineEvent({"friend_request"}, {0}, PublicKeys, {NoEnum}, EngineBuffers)
    \cup EngineEvent({"friend_status"}, FriendNumbers, {NoKey}, CUserStatuses, {<<>>})
    \cup EngineEvent({"friend_connection_status"}, FriendNumbers, {NoKey},
                     CConnections, {<<>>})
    \cup EngineEvent({"friend_message"}, FriendNumbers, {NoKey}, CMessageTypes,
                     EngineBuffers)

\* what running a callback did: the panic it raised, if any, and the
\* handler invocations it made
NoPanic == "none"
Panic(msg) == [panic |-> msg, ran |-> <<>>]

\* calling a Go func value: a nil func panics, a handler runs and returns
CallFunc(f, args) ==
    IF f = NilFunc
    THEN Panic("invalid memory address or nil pointer dereference")
    ELSE [panic |-> NoPanic, ran |-> <<[func |-> f, args |-> args]>>]

\* a callback that takes the first Instance, whatever its user data
ToxAtFirst(c_user_data, mem) == ("self" :> TheTox) @@ mem[TheTox]

\* (*Tox)(c_user_data): the Instance at the pointer, with the handler fields
\* the memory holds there; `self` is the pointer itself
ToxAt(c_user_data, mem) == ("self" :> c_user_data) @@ mem[c_user_data]

\* make([]byte, c_length) filled by memcpy when c_length > 0
CopyBytes(c_ptr, c_length) == Slice(SubSeq(c_ptr, 1, c_length))

callback_self_connection_status(tox, c_connection_status) ==
    CASE c_connection_status = "TOX_CONNECTION_NONE" ->
            CallFunc(tox.onSelfConnectionStatus, <<tox.self, ToxConnectionNone>>)
      [] c_connection_status = "TOX_CONNECTION_TCP" ->
            CallFunc(tox.onSelfConnectionStatus, <<tox.self, ToxConnectionTCP>>)
      [] c_connection_status = "TOX_CONNECTION_UDP" ->
            CallFunc(tox.onSelfConnectionStatus, <<tox.self, ToxConnectionUDP>>)
      [] OTHER -> Panic("unknown connection status")

callback_friend_name(tox, c_friend_number, c_name, c_length) ==
    CallFunc(tox.onFriendName,
             <<tox.self, c_friend_number, CopyBytes(c_name, c_length)>>)

callback_friend_request(tox, c_public_key, c_message, c_length) ==
    CallFunc(tox.onFriendRequest,
             <<tox.self, c_public_key, CopyBytes(c_message, c_length)>>)

callback_friend_status_message(tox, c_friend_number, c_message, c_length) ==
    CallFunc(tox.onFriendStatusMessage,
             <<tox.self, c_friend_number, CopyBytes(c_message, c_length)>>)

callback_friend_status(tox, c_friend_number, c_user_status) ==
    CASE c_user_status = "TOX_USER_STATUS_NONE" ->
            CallFunc(tox.onFriendStatus, <<tox.self, c_friend_number, ToxUserStatusNone>>)
      [] c_user_status = "TOX_USER_STATUS_AWAY" ->
            CallFunc(tox.onFriendStatus, <<tox.self, c_friend_number, ToxUserStatusAway>>)
      [] c_user_status = "TOX_USER_STATUS_BUSY" ->
            CallFunc(tox.onFriendStatus, <<tox.self, c_friend_number, ToxUserStatusBusy>>)
      [] OTHER -> Panic("unknown user status")

callback_friend_connection_status(tox, c_friend_number, c_connection_status) ==
    CASE c_connection_status = "TOX_CONNECTION_NONE" ->
            CallFunc(tox.onFriendConnectionStatus,
                     <<tox.self, c_friend_number, ToxConnectionNone>>)
      [] c_connection_status = "TOX_CONNECTION_TCP" ->
            CallFunc(tox.onFriendConnectionStatus,
                     <<tox.self, c_friend_number, ToxConnectionTCP>>)
      [] c_connection_status = "TOX_CONNECTION_UDP" ->
            CallFunc(tox.onFriendConnectionStatus,
                     <<tox.self, c_friend_number, ToxConnectionUDP>>)
      [] OTHER -> Panic("unknown connection status")

callback_friend_message(tox, c_friend_number, c_message_type, c_message, c_length) ==
    CASE c_message_type = "TOX_MESSAGE_TYPE_NORMAL" ->
            CallFunc(tox.onFriendMessage,
                     <<tox.self, c_friend_number, ToxMessageTypeNormal,
                       CopyBytes(c_message, c_length)>>)
      [] c_message_type = "TOX_MESSAGE_TYPE_ACTION" ->
            CallFunc(tox.onFriendMessage,
                     <<tox.self, c_friend_number, ToxMessageTypeAction,
                       CopyBytes(c_message, c_length)>>)
      [] OTHER -> Panic("unknown message type")

callback_friend_lossless_packet(tox, c_friend_number, c_data, c_length) ==
    CallFunc(tox.onFriendLosslessPacket,
             <<tox.self, c_friend_number, CopyBytes(c_data, c_length)>>)

\* the engine calling the function pointer of a table entry with the
\* arguments of the event and the user data of the entry
Invoke(cb, tox, ev) ==
    CASE cb.fn = "self_connection_status" ->
            callback_self_connection_status(tox, ev.c_enum)
      [] cb.fn = "friend_name" ->
            callback_friend_name(tox, ev.c_friend_number, ev.c_data, Len(ev.c_data))
      [] cb.fn = "friend_request" ->
            callback_friend_request(tox, ev.c_public_key, ev.c_data, Len(ev.c_data))
      [] cb.fn = "friend_status_message" ->
            callback_friend_status_message(tox, ev.c_friend_number, ev.c_data,
                                           Len(ev.c_data))
      [] cb.fn = "friend_status" ->
            callback_friend_status(tox, ev.c_friend_number, ev.c_enum)
      [] cb.fn = "friend_connection_status" ->
            callback_friend_connection_status(tox, ev.c_friend_number, ev.c_enum)
      [] cb.fn = "friend_message" ->
            callback_friend_message(tox, ev.c_friend_number, ev.c_enum, ev.c_data,
                                    Len(ev.c_data))
      [] cb.fn = "friend_lossless_packet" ->
            callback_friend_lossless_packet(tox, ev.c_friend_number, ev.c_data,
                                            Len(ev.c_data))

\* the field each callback reads
FieldOf(kind) ==
    CASE kind = "self_connection_status" -> "onSelfConnectionStatus"
      [] kind = "friend_name" -> "onFriendName"
      [] kind = "friend_request" -> "onFriendRequest"
      [] kind = "friend_status_message" -> "onFriendStatusMessage"
      [] kind = "friend_status" -> "onFriendStatus"
      [] kind = "friend_connection_status" -> "onFriendConnectionStatus"
      [] kind = "friend_message" -> "onFriendMessage"
      [] kind = "friend_lossless_packet" -> "onFriendLosslessPacket"

NoEvent == [kind |-> "none"]

\* the Instance New returned: no handler assigned, nothing registered
Init ==
    /\ heap = EmptyHeap
    /\ heapLog = <<>>
    /\ options = NoOptions
    /\ c_options = NoStruct
    /\ result = NoOptions
    /\ throw = NilErr
    /\ optPc = "none"
    /\ call = NoCall
    /\ slot = [f \in Fields |-> NilFunc]
    /\ registered = [k \in Kinds |-> NoCallback]
    /\ lock = "free"
    /\ procPc = "idle"
    /\ event = NoEvent
    /\ lastSet = [f \in Fields |-> "unset"]
    /\ setCalls = 0
    /\ tickLog = NoTick
    /\ pc = <<>>
    /\ handle = TheHandle
    /\ engine = NoEngine
    /\ trail = <<>>

\* the arguments a caller passes to a SetOn<K> function
Callbacks == Funcs \cup {NilFunc}

\* a caller may call a SetOn<K> function: its thread has not panicked
CanSetOn == procPc # "panicked" /\ setCalls < MaxSetCalls

\* the record of a SetOn<K> call: the argument last passed for the field
Noted(field, callback) ==
    /\ lastSet' = [lastSet EXCEPT ![field] = callback]
    /\ setCalls' = setCalls + 1

\* SetOnSelfConnectionStatus: assign the field, then register callback_self_connection_status
\* with the Instance as user data
SetOnSelfConnectionStatus ==
    \E callback \in Callbacks :
        /\ CanSetOn
        /\ slot' = [slot EXCEPT !.onSelfConnectionStatus = callback]
        /\ registered' = [registered EXCEPT
                             !.self_connection_status = register("self_connection_status", TheTox)]
        /\ Noted("onSelfConnectionStatus", callback)
        /\ UNCHANGED <<lock, procPc, event, optVars, heapVars, apiVars, moreVars>>

\* SetOnFriendRequest: assign the field, then register callback_friend_request
\* with the Instance as user data
SetOnFriendRequest ==
    \E callback \in Callbacks :
        /\ CanSetOn
        /\ slot' = [slot EXCEPT !.onFriendRequest = callback]
        /\ registered' = [registered EXCEPT
                             !.friend_request = register("friend_request", TheTox)]
        /\ Noted("onFriendRequest", callback)
        /\ UNCHANGED <<lock, procPc, event, optVars, heapVars, apiVars, moreVars>>

\* SetOnFriendName: assign the field, then register callback_friend_name
\* with the Instance as user data
SetOnFriendName ==
    \E callback \in Callbacks :
        /\ CanSetOn
        /\ slot' = [slot EXCEPT !.onFriendName = callback]
        /\ registered' = [registered EXCEPT
                             !.friend_name = register("friend_name", TheTox)]
        /\ Noted("onFriendName", callback)
        /\ UNCHANGED <<lock, procPc, event, optVars, heapVars, apiVars, moreVars>>

\* SetOnFriendStatus: assign the field, then register callback_friend_status
\* with the Instance as user data
SetOnFriendStatus ==
    \E callback \in Callbacks :
        /\ CanSetOn
        /\ slot' = [slot EXCEPT !.onFriendStatus = callback]
        /\ registered' = [registered EXCEPT
                             !.friend_status = register("friend_status", TheTox)]
        /\ Noted("onFriendStatus", callback)
        /\ UNCHANGED <<lock, procPc, event, optVars, heapVars, apiVars, moreVars>>

\* SetOnFriendStatusMessage: assign the field, then register callback_friend_status_message
\* with the Instance as user data
SetOnFriendStatusMessage ==
    \E callback \in Callbacks :
        /\ CanSetOn
        /\ slot' = [slot EXCEPT !.onFriendStatusMessage = callback]
        /\ registered' = [registered EXCEPT
                             !.friend_status_message = register("friend_status_message", TheTox)]
        /\ Noted("onFriendStatusMessage", callback)
        /\ UNCHANGED <<lock, procPc, event, optVars, heapVars, apiVars, moreVars>>

\* SetOnFriendConnectionStatus: assign the field, then register callback_friend_connection_status
\* with the Instance as user data
SetOnFriendConnectionStatus ==
    \E callback \in Callbacks :
        /\ CanSetOn
        /\ slot' = [slot EXCEPT !.onFriendConnectionStatus = callback]
        /\ registered' = [registered EXCEPT
                             !.friend_connection_status = register("friend_connection_status", TheTox)]
        /\ Noted("onFriendConnectionStatus", callback)
        /\ UNCHANGED <<lock, procPc, event, optVars, heapVars, apiVars, moreVars>>

\* SetOnFriendMessage: assign the field, then register callback_friend_message
\* with the Instance as user data
SetOnFriendMessage ==
    \E callback \in Callbacks :
        /\ CanSetOn
        /\ slot' = [slot EXCEPT !.onFriendMessage = callback]
        /\ registered' = [registered EXCEPT
                             !.friend_message = register("friend_message", TheTox)]
        /\ Noted("onFriendMessage", callback)
        /\ UNCHANGED <<lock, procPc, event, optVars, heapVars, apiVars, moreVars>>

\* SetOnFriendLosslessPacket: assign the field, then register callback_friend_lossless_packet
\* with the Instance as user data
SetOnFriendLosslessPacket ==
    \E callback \in Callbacks :
        /\ CanSetOn
        /\ slot' = [slot EXCEPT !.onFriendLosslessPacket = callback]
        /\ registered' = [registered EXCEPT
                             !.friend_lossless_packet = register("friend_lossless_packet", TheTox)]
        /\ Noted("onFriendLosslessPacket", callback)
        /\ UNCHANGED <<lock, procPc, event, optVars, heapVars, apiVars, moreVars>>

\* Process: take the lock and enter tox_iterate
ProcessLock ==
    /\ procPc = "idle"
    /\ lock = "free"
    /\ lock' = "held"
    /\ procPc' = "iterating"
    /\ UNCHANGED <<slot, registered, event, lastSet, setCalls,
                   optVars, heapVars, apiVars, moreVars>>

\* the engine raising ev: it runs the callback registered for the kind of
\* ev, if any; the record of the event, of the handler the caller last set
\* for its kind, and of what the callback did
Raised(ev) ==
    LET cb == registered[ev.kind]
        out == IF cb.fn = "none"
               THEN [panic |-> NoPanic, ran |-> <<>>]
               ELSE Invoke(cb, ToxAt(cb.user_data, TheTox :> slot), ev)
    IN  [kind |-> ev.kind, c_enum |-> ev.c_enum, c_data |-> ev.c_data,
         expected |-> lastSet[FieldOf(ev.kind)],
         ran |-> out.ran, panic |-> out.panic]

\* tox_iterate raises an event; a panic of the callback unwinds through
\* Process, which has no deferred unlock
ProcessEvent ==
    /\ procPc = "iterating"
    /\ \E ev \in EngineEvents :
          /\ event' = Raised(ev)
          /\ procPc' = IF Raised(ev).panic = NoPanic THEN "iterating" ELSE "panicked"
    /\ UNCHANGED <<slot, registered, lock, lastSet, setCalls,
                   optVars, heapVars, apiVars, moreVars>>

\* tox_iterate returns and Process releases the lock
ProcessUnlock ==
    /\ procPc = "iterating"
    /\ lock' = "free"
    /\ procPc' = "idle"
    /\ UNCHANGED <<slot, registered, event, lastSet, setCalls,
                   optVars, heapVars, apiVars, moreVars>>

Next ==
    \/ SetOnSelfConnectionStatus \/ SetOnFriendRequest \/ SetOnFriendName
    \/ SetOnFriendStatus \/ SetOnFriendStatusMessage
    \/ SetOnFriendConnectionStatus \/ SetOnFriendMessage
    \/ SetOnFriendLosslessPacket
    \/ ProcessLock \/ ProcessEvent \/ ProcessUnlock

Spec == Init /\ [][Next]_vars

---------------------------------------------------------------------------
(* One Process call at a time, with the log of what the engine raised and  *)
(* of what the callbacks invoked.                                          *)

\* Process takes the lock and enters tox_iterate; the log starts empty
TickLock ==
    /\ procPc = "idle"
    /\ lock = "free"
    /\ lock' = "held"
    /\ procPc' = "iterating"
    /\ tickLog' = NoTick
    /\ UNCHANGED <<slot, registered, event, lastSet, setCalls,
                   optVars, heapVars, apiVars, lifeVars>>

\* tox_iterate raises an event; the handler invocations of its callback
\* happen before the callback returns to the engine
TickEvent ==
    /\ procPc = "iterating"
    /\ Len(tickLog.raised) < MaxEvents
    /\ \E ev \in EngineEvents :
          /\ event' = Raised(ev)
          /\ procPc' = IF Raised(ev).panic = NoPanic THEN "iterating" ELSE "panicked"
          /\ tickLog' = [raised |-> Append(tickLog.raised,
                                           [ev |-> ev,
                                            expected |-> lastSet[FieldOf(ev.kind)]]),
                         invoked |-> tickLog.invoked \o Raised(ev).ran]
    /\ UNCHANGED <<slot, registered, lock, lastSet, setCalls,
                   optVars, heapVars, apiVars, lifeVars>>

NextTick ==
    \/ SetOnSelfConnectionStatus \/ SetOnFriendRequest \/ SetOnFriendName
    \/ SetOnFriendStatus \/ SetOnFriendStatusMessage
    \/ SetOnFriendConnectionStatus \/ SetOnFriendMessage
    \/ SetOnFriendLosslessPacket
    \/ TickLock \/ TickEvent \/ ProcessUnlock

SpecTick == Init /\ [][NextTick]_vars

\* the events of a log raised for a kind whose last SetOn<K> call
\* installed a handler, in order, each as the handler to run
RECURSIVE Handled(_)
Handled(raised) ==
    IF raised = <<>> THEN <<>>
    ELSE IF Head(raised).expected \in Funcs
         THEN <<Head(raised)>> \o Handled(Tail(raised))
         ELSE Handled(Tail(raised))

\* the Go value of an enumerated value of the engine
GoEnum(c_enum) ==
    CASE c_enum = "TOX_CONNECTION_NONE" -> ToxConnectionNone
      [] c_enum = "TOX_CONNECTION_TCP" -> ToxConnectionTCP
      [] c_enum = "TOX_CONNECTION_UDP" -> ToxConnectionUDP
      [] c_enum = "TOX_USER_STATUS_NONE" -> ToxUserStatusNone
      [] c_enum = "TOX_USER_STATUS_AWAY" -> ToxUserStatusAway
      [] c_enum = "TOX_USER_STATUS_BUSY" -> ToxUserStatusBusy
      [] c_enum = "TOX_MESSAGE_TYPE_NORMAL" -> ToxMessageTypeNormal
      [] c_enum = "TOX_MESSAGE_TYPE_ACTION" -> ToxMessageTypeAction
      [] OTHER -> -1

\* the arguments the handler of an event is to be invoked with
ArgsOf(ev) ==
    CASE ev.kind = "self_connection_status" -> <<TheTox, GoEnum(ev.c_enum)>>
      [] ev.kind = "friend_request" ->
            <<TheTox, ev.c_public_key, Slice(ev.c_data)>>
      [] ev.kind \in {"friend_status", "friend_connection_status"} ->
            <<TheTox, ev.c_friend_number, GoEnum(ev.c_enum)>>
      [] ev.kind = "friend_message" ->
            <<TheTox, ev.c_friend_number, GoEnum(ev.c_enum), Slice(ev.c_data)>>
      [] OTHER -> <<TheTox, ev.c_friend_number, Slice(ev.c_data)>>

\* C11: within one Process call, the handler invocations are, in order,
\* the events the engine raised for kinds with a registered handler: one
\* invocation per such event, of that handler, with the arguments of that
\* event, none reordered, merged or left for later.
C11_InvokedInOrder ==
    LET want == Handled(tickLog.raised) IN
    /\ Len(tickLog.invoked) = Len(want)
    /\ \A i \in 1..Len(want) :
          /\ tickLog.invoked[i].func = want[i].expected
          /\ Len(tickLog.invoked[i].args) = Len(ArgsOf(want[i].ev))
          /\ tickLog.invoked[i].args = ArgsOf(want[i].ev)

\* C11 witness: in one Process call the engine raised two events for kinds
\* with a handler; the first ran its handler and the second, carrying an
\* unrecognized enumerated value, panicked before its handler.
C11_Witness ==
    /\ Len(Handled(tickLog.raised)) = 2
    /\ Len(tickLog.invoked) = 1
    /\ procPc = "panicked"
    /\ event.panic \in {"unknown connection status", "unknown user status",
                        "unknown message type"}

---------------------------------------------------------------------------
(* Claims about event dispatch. *)

KnownEnums == (CConnections \cup CUserStatuses \cup CMessageTypes)
                 \ {"TOX_CONNECTION_UNRECOGNIZED", "TOX_USER_STATUS_UNRECOGNIZED",
                    "TOX_MESSAGE_TYPE_UNRECOGNIZED"}
EnumKinds == {"self_connection_status", "friend_status",
              "friend_connection_status", "friend_message"}
EventRaised == event.kind # "none"
UnrecognizedEnum == event.kind \in EnumKinds /\ event.c_enum \notin KnownEnums

\* C8: an event of a kind never runs more than one handler, and when the
\* most recent SetOn<K> call of that kind installed a handler, the event
\* runs exactly that handler, exactly once.
C8_LatestHandlerOnce ==
    EventRaised =>
        /\ Len(event.ran) <= 1
        /\ event.expected \in Funcs =>
              /\ Len(event.ran) = 1
              /\ event.ran[1].func = event.expected

\* C8 witness: a handler was installed for the kind of an event, and the
\* callback panicked on the event's enumerated value before calling it.
C8_Witness ==
    /\ EventRaised
    /\ event.expected \in Funcs
    /\ UnrecognizedEnum
    /\ event.ran = <<>>

\* C9: an event of a kind whose slot is empty, because no handler was ever
\* set or because the last SetOn<K> call passed nil, runs no handler and
\* raises no panic.
C9_EmptySlotDrops ==
    (EventRaised /\ event.expected \in {"unset", NilFunc}) =>
        /\ event.ran = <<>>
        /\ event.panic = NoPanic

\* C9 witness: the last SetOn<K> call of the kind passed nil, the engine
\* raised an event of the kind, and calling the nil field panicked inside
\* Process, which still holds the lock.
C9_Witness ==
    /\ EventRaised
    /\ event.expected = NilFunc
    /\ event.panic = "invalid memory address or nil pointer dereference"
    /\ procPc = "panicked"
    /\ lock = "held"

\* C10: an event that carries an enumerated value no callback recognizes
\* raises no panic.
C10_UnknownEnumNoPanic ==
    (EventRaised /\ UnrecognizedEnum) => event.panic = NoPanic

\* C10 witness: a callback met an enumerated value outside its switch and
\* panicked out of Process.
C10_Witness ==
    /\ EventRaised
    /\ UnrecognizedEnum
    /\ event.panic \in {"unknown connection status", "unknown user status",
                        "unknown message type"}
    /\ procPc = "panicked"

---------------------------------------------------------------------------
(* Threads calling into one Instance: Process, the SetOn<K> functions and  *)
(* every other method that passes the handle to the engine.                *)

\* the thread of the Process loop, and a second thread that calls any method
Threads == {"t1", "t2"}
Callers == {"t2"}

\* the methods other than Process, each with the engine functions it calls
\* with tox.handle, in order; none of them touches tox.lock
EngineCalls ==
    [Serialize |-> <<"tox_get_savedata_size", "tox_get_savedata">>,
     Destroy |-> <<"tox_kill">>,
     ProcessDelay |-> <<"tox_iteration_interval">>,
     SetOnSelfConnectionStatus |-> <<"register_self_connection_status">>,
     SetOnFriendRequest |-> <<"register_friend_request">>,
     SetOnFriendName |-> <<"register_friend_name">>,
     SetOnFriendStatus |-> <<"register_friend_status">>,
     SetOnFriendStatusMessage |-> <<"register_friend_status_message">>,
     SetOnFriendConnectionStatus |-> <<"register_friend_connection_status">>,
     SetOnFriendMessage |-> <<"register_friend_message">>,
     SetOnFriendLosslessPacket |-> <<"register_friend_lossless_packet">>,
     GetAddress |-> <<"tox_self_get_address">>,
     GetNoSpam |-> <<"tox_self_get_nospam">>,
     SetNoSpam |-> <<"tox_self_set_nospam">>,
     GetPublicKey |-> <<"tox_self_get_public_key">>,
     GetSecretKey |-> <<"tox_self_get_secret_key">>,
     GetName |-> <<"tox_self_get_name_size", "tox_self_get_name">>,
     SetName |-> <<"tox_self_set_name">>,
     GetStatus |-> <<"tox_self_get_status">>,
     SetStatus |-> <<"tox_self_set_status">>,
     GetStatusMessage |-> <<"tox_self_get_status_message_size",
                            "tox_self_get_status_message">>,
     SetStatusMessage |-> <<"tox_self_set_status_message">>,
     GetConnectionStatus |-> <<"tox_self_get_connection_status">>,
     GetFriendList |-> <<"tox_self_get_friend_list_size", "tox_self_get_friend_list">>,
     FriendAdd |-> <<"tox_friend_add">>,
     FriendAddNoRequest |-> <<"tox_friend_add_norequest">>,
     FriendDelete |-> <<"tox_friend_delete">>,
     FriendExists |-> <<"tox_friend_exists">>,
     FriendGetName |-> <<"tox_friend_get_name_size", "tox_friend_get_name">>,
     FriendGetPublicKey |-> <<"tox_friend_get_public_key">>,
     FriendByPublicKey |-> <<"tox_friend_by_public_key">>,
     FriendGetStatus |-> <<"tox_friend_get_status">>,
     FriendGetStatusMessage |-> <<"tox_friend_get_status_message_size",
                                  "tox_friend_get_status_message">>,
     FriendGetConnectionStatus |-> <<"tox_friend_get_connection_status">>,
     FriendGetLastOnline |-> <<"tox_friend_get_last_online">>,
     FriendSendMessage |-> <<"tox_friend_send_message">>,
     FriendSendLosslessPacket |-> <<"tox_friend_send_lossless_packet">>,
     Bootstrap |-> <<"tox_bootstrap">>]

\* the kind whose field a SetOn<K> method assigns before it registers
SetOnKind ==
    [SetOnSelfConnectionStatus |-> "self_connection_status",
     SetOnFriendRequest |-> "friend_request",
     SetOnFriendName |-> "friend_name",
     SetOnFriendStatus |-> "friend_status",
     SetOnFriendStatusMessage |-> "friend_status_message",
     SetOnFriendConnectionStatus |-> "friend_connection_status",
     SetOnFriendMessage |-> "friend_message",
     SetOnFriendLosslessPacket |-> "friend_lossless_packet"]

\* positions of a thread: in no call, or in a method, inside an engine
\* function or unwinding a panic
Idle == [op |-> "none", at |-> "idle"]
In(op, fn) == [op |-> op, at |-> fn]

\* sync.Mutex.Lock returning always
CanLockAlways(l) == TRUE

\* sync.Mutex.Lock returns once the mutex is free
CanLock(l) == l = "free"

InitThreads ==
    /\ heap = EmptyHeap
    /\ heapLog = <<>>
    /\ options = NoOptions
    /\ c_options = NoStruct
    /\ result = NoOptions
    /\ throw = NilErr
    /\ optPc = "none"
    /\ call = NoCall
    /\ slot = [f \in Fields |-> NilFunc]
    /\ registered = [k \in Kinds |-> NoCallback]
    /\ lock = "free"
    /\ procPc = "none"
    /\ event = NoEvent
    /\ lastSet = [f \in Fields |-> "unset"]
    /\ setCalls = 0
    /\ tickLog = NoTick
    /\ pc = [t \in Threads |-> Idle]
    /\ handle = TheHandle
    /\ engine = NoEngine
    /\ trail = <<>>

\* a thread calls Process and reaches tox.lock.Lock()
ThreadProcess ==
    \E t \in Threads :
        /\ pc[t] = Idle
        /\ pc' = [pc EXCEPT ![t] = In("Process", "Lock")]
        /\ UNCHANGED <<slot, registered, lock, procPc, event, lastSet, setCalls,
                       tickLog, handle, engine, trail, optVars, heapVars, apiVars>>

\* Lock returns with the mutex held, and Process enters tox_iterate
ThreadProcessLock ==
    \E t \in Threads :
        /\ pc[t] = In("Process", "Lock")
        /\ CanLock(lock)
        /\ lock' = "held"
        /\ pc' = [pc EXCEPT ![t] = In("Process", "tox_iterate")]
        /\ UNCHANGED <<slot, registered, procPc, event, lastSet, setCalls,
                       tickLog, handle, engine, trail, optVars, heapVars, apiVars>>

\* tox_iterate raises an event on the thread inside it; a panic of the
\* callback unwinds through Process with the lock held
ThreadProcessEvent ==
    \E t \in Threads :
        /\ pc[t] = In("Process", "tox_iterate")
        /\ \E panic \in {Raised(ev).panic : ev \in EngineEvents} :
              pc' = [pc EXCEPT ![t] = IF panic = NoPanic
                                      THEN pc[t] ELSE In("Process", "panicked")]
        /\ UNCHANGED <<slot, registered, lock, procPc, event, lastSet, setCalls,
                       tickLog, handle, engine, trail, optVars, heapVars, apiVars>>

\* tox_iterate returns: tox.lock.Unlock()
ThreadProcessUnlock ==
    \E t \in Threads :
        /\ pc[t] = In("Process", "tox_iterate")
        /\ lock' = "free"
        /\ pc' = [pc EXCEPT ![t] = Idle]
        /\ UNCHANGED <<slot, registered, procPc, event, lastSet, setCalls,
                       tickLog, handle, engine, trail, optVars, heapVars, apiVars>>

\* ThreadCall with SetOn<K> methods that register only a kind that has no
\* entry in the engine's table yet
ThreadCallRegistersOnce ==
    \E t \in Callers, op \in DOMAIN EngineCalls :
        /\ pc[t] = Idle
        /\ pc' = [pc EXCEPT ![t] =
                     IF op \in DOMAIN SetOnKind /\ registered[SetOnKind[op]] # NoCallback
                     THEN In(op, "return")
                     ELSE In(op, EngineCalls[op][1])]
        /\ IF op \in DOMAIN SetOnKind
           THEN \E callback \in Callbacks :
                   /\ setCalls < MaxSetCalls
                   /\ slot' = [slot EXCEPT ![FieldOf(SetOnKind[op])] = callback]
                   /\ Noted(FieldOf(SetOnKind[op]), callback)
           ELSE UNCHANGED <<slot, lastSet, setCalls>>
        /\ UNCHANGED <<registered, lock, procPc, event,
                       tickLog, handle, engine, trail, optVars, heapVars, apiVars>>

\* a thread calls another method and enters its first engine function; a
\* SetOn<K> method has assigned its field before that
ThreadCall ==
    \E t \in Callers, op \in DOMAIN EngineCalls :
        /\ pc[t] = Idle
        /\ pc' = [pc EXCEPT ![t] = In(op, EngineCalls[op][1])]
        /\ IF op \in DOMAIN SetOnKind
           THEN \E callback \in Callbacks :
                   /\ setCalls < MaxSetCalls
                   /\ slot' = [slot EXCEPT ![FieldOf(SetOnKind[op])] = callback]
                   /\ Noted(FieldOf(SetOnKind[op]), callback)
           ELSE UNCHANGED <<slot, lastSet, setCalls>>
        /\ UNCHANGED <<registered, lock, procPc, event,
                       tickLog, handle, engine, trail, optVars, heapVars, apiVars>>

\* the engine function returns and the method calls its next one
ThreadNextCall ==
    \E t \in Threads :
        /\ pc[t].op \in DOMAIN EngineCalls
        /\ \E i \in 1..(Len(EngineCalls[pc[t].op]) - 1) :
              /\ pc[t].at = EngineCalls[pc[t].op][i]
              /\ pc' = [pc EXCEPT ![t] = In(pc[t].op, EngineCalls[pc[t].op][i + 1])]
        /\ UNCHANGED <<slot, registered, lock, procPc, event, lastSet, setCalls,
                       tickLog, handle, engine, trail, optVars, heapVars, apiVars>>

\* the engine function returns and the method returns; register_<x> has
\* entered callback_<x> in the engine's table
ThreadReturn ==
    \E t \in Threads :
        /\ pc[t].op \in DOMAIN EngineCalls
        /\ pc' = [pc EXCEPT ![t] = Idle]
        /\ registered' = IF pc[t].op \in DOMAIN SetOnKind
                         THEN [registered EXCEPT ![SetOnKind[pc[t].op]] =
                                  register(SetOnKind[pc[t].op], TheTox)]
                         ELSE registered
        /\ UNCHANGED <<slot, lock, procPc, event, lastSet, setCalls,
                       tickLog, handle, engine, trail, optVars, heapVars, apiVars>>

NextThreads ==
    \/ ThreadProcess \/ ThreadProcessLock \/ ThreadProcessEvent
    \/ ThreadProcessUnlock
    \/ ThreadCall \/ ThreadNextCall \/ ThreadReturn

SpecThreads == InitThreads /\ [][NextThreads]_vars

---------------------------------------------------------------------------
(* Claims about threads. *)

Iterating == {t \in Threads : pc[t] = In("Process", "tox_iterate")}
InEngine(ops) == {t \in Threads : pc[t].op \in ops}

\* C12: at most one thread is inside tox_iterate at any time, and a thread
\* inside tox_iterate holds the Instance's mutex.
C12_OneIterating ==
    /\ Cardinality(Iterating) <= 1
    /\ Iterating # {} => lock = "held"

\* C12 witness: one thread is inside tox_iterate while the other has called
\* Process and waits in Lock.
C12_Witness ==
    /\ pc["t1"] = In("Process", "tox_iterate")
    /\ pc["t2"] = In("Process", "Lock")
    /\ lock = "held"

\* C13: no thread is inside an engine function of a method that touches
\* the handle while another thread is inside tox_iterate.
C13_EngineCallsSerialized ==
    Iterating # {} => InEngine(DOMAIN EngineCalls \ DOMAIN SetOnKind) = {}

\* C13 witness: a thread is inside tox_friend_add while another is inside
\* tox_iterate.
C13_Witness ==
    /\ pc["t1"] = In("Process", "tox_iterate")
    /\ pc["t2"] = In("FriendAdd", "tox_friend_add")

\* C14: no thread has assigned a handler field and is registering the
\* callback while another thread is inside tox_iterate.
C14_SetOnSerialized ==
    Iterating # {} => InEngine(DOMAIN SetOnKind) = {}

\* C14 witness: a thread entered tox_iterate, and then another assigned
\* onFriendMessage and is inside register_friend_message.
C14_Witness ==
    /\ pc["t1"] = In("Process", "tox_iterate")
    /\ pc["t2"] = In("SetOnFriendMessage", "register_friend_message")
    /\ slot.onFriendMessage = "h1"

----------------------------------------------------------------------------
(* One Instance on an engine that keeps state.  The engine is toxcore,     *)
(* which this package only calls: it is modelled here by what its          *)
(* operations promise (an info string within its maximum length is stored  *)
(* and read back, a longer one is refused and nothing changes, a friend    *)
(* number is valid from its add to its delete, a killed handle is          *)
(* invalid).  The methods of the binding are translated from tox.go.       *)

\* stand-in for C.TOX_MAX_NAME_LENGTH
ToxMaxNameLength == 1
\* stand-in for C.TOX_MAX_STATUS_MESSAGE_LENGTH
ToxMaxStatusMessageLength == 1
\* the calls made on the Instance in one behaviour
MaxCalls == 4

\* the engine of a new Instance: no name, no status message, no friend, not killed
FreshEngine == [name |-> <<>>, status_message |-> <<>>, friends |-> {}, kills |-> 0]

\* what an engine call leaves: the engine's state, the value returned and the error code
Outcome(e, ret, c_error) == [ub |-> FALSE, engine |-> e, ret |-> ret, c_error |-> c_error]
\* a call on a killed handle is undefined: nothing is known of what it returns
Undefined(e) == [ub |-> TRUE, engine |-> e, ret |-> 0, c_error |-> "undefined"]

tox_kill(e) ==
    IF e.kills > 0 THEN {Undefined([e EXCEPT !.kills = e.kills + 1])}
    ELSE {Outcome([e EXCEPT !.kills = 1], 0, "none")}

tox_self_set_name(e, c_name, c_length) ==
    IF e.kills > 0 THEN {Undefined(e)}
    ELSE IF c_name.null /\ c_length > 0
    THEN {Outcome(e, FALSE, "TOX_ERR_SET_INFO_NULL")}
    ELSE IF c_length > ToxMaxNameLength
    THEN {Outcome(e, FALSE, "TOX_ERR_SET_INFO_TOO_LONG")}
    ELSE {Outcome([e EXCEPT !.name = SubSeq(c_name.bytes, 1, c_length)], TRUE,
                  "TOX_ERR_SET_INFO_OK")}

tox_self_get_name_size(e) ==
    IF e.kills > 0 THEN {Undefined(e)} ELSE {Outcome(e, Len(e.name), "none")}

\* the bytes the engine writes at the pointer: none at a null pointer
tox_self_get_name(e, c_name) ==
    IF e.kills > 0 THEN {Undefined(e)}
    ELSE {Outcome(e, IF c_name.null THEN <<>> ELSE e.name, "none")}

tox_self_set_status_message(e, c_message, c_length) ==
    IF e.kills > 0 THEN {Undefined(e)}
    ELSE IF c_message.null /\ c_length > 0
    THEN {Outcome(e, FALSE, "TOX_ERR_SET_INFO_NULL")}
    ELSE IF c_length > ToxMaxStatusMessageLength
    THEN {Outcome(e, FALSE, "TOX_ERR_SET_INFO_TOO_LONG")}
    ELSE {Outcome([e EXCEPT !.status_message = SubSeq(c_message.bytes, 1, c_length)], TRUE,
                  "TOX_ERR_SET_INFO_OK")}

tox_self_get_status_message_size(e) ==
    IF e.kills > 0 THEN {Undefined(e)} ELSE {Outcome(e, Len(e.status_message), "none")}

tox_self_get_status_message(e, c_message) ==
    IF e.kills > 0 THEN {Undefined(e)}
    ELSE {Outcome(e, IF c_message.null THEN <<>> ELSE e.status_message, "none")}

\* the engine's save data: its state written out as bytes, the key pair
\* first where the model follows it
SaveData(e) ==
    (IF "public_key" \in DOMAIN e THEN <<e.public_key, e.secret_key>> ELSE <<>>)
    \o e.name \o e.status_message

tox_get_savedata_size(e) ==
    IF e.kills > 0 THEN {Undefined(e)} ELSE {Outcome(e, Len(SaveData(e)), "none")}

tox_get_savedata(e, c_data) ==
    IF e.kills > 0 THEN {Undefined(e)}
    ELSE {Outcome(e, IF c_data.null THEN <<>> ELSE SaveData(e), "none")}

\* the names and status messages the callers pass: one byte repeated up to one
\* past the maximum, a NUL byte, the empty slice; and for names the nil slice
NameArgs ==
    {NilSlice} \cup {Slice(s) : s \in SeqsUpTo({65}, ToxMaxNameLength + 1) \cup {<<0>>}}
StatusMessageArgs ==
    {Slice(s) : s \in SeqsUpTo({66}, ToxMaxStatusMessageLength + 1)}

\* one call of a method as the trail keeps it: the engine functions it
\* called and the handle it passed them, the engine's state before and after,
\* what it returned; after an undefined engine call nothing is known of the latter
Made(op, arg, fns, h, e, ub, after, ret, err) ==
    [op |-> op, arg |-> arg, fns |-> fns, handle |-> h, ub |-> ub,
     before |-> e, after |-> after,
     ret |-> IF ub THEN "undefined" ELSE ret,
     throw |-> IF ub THEN "undefined" ELSE err]

\* New(nil) has returned an Instance; nothing was called on it yet
InitCalls ==
    /\ heap = EmptyHeap
    /\ heapLog = <<>>
    /\ options = NoOptions
    /\ c_options = NoStruct
    /\ result = NoOptions
    /\ throw = NilErr
    /\ optPc = "none"
    /\ call = NoCall
    /\ slot = [f \in Fields |-> NilFunc]
    /\ registered = [k \in Kinds |-> NoCallback]
    /\ lock = "free"
    /\ procPc = "none"
    /\ event = NoEvent
    /\ lastSet = [f \in Fields |-> "unset"]
    /\ setCalls = 0
    /\ tickLog = NoTick
    /\ pc = <<>>
    /\ handle = TheHandle
    /\ engine = FreshEngine
    /\ trail = <<>>

\* Destroy with a liveness flag: a second call does not reach the engine
Tox_DestroyOnce ==
    /\ Len(trail) < MaxCalls
    /\ IF engine.kills > 0
       THEN /\ trail' = Append(trail, Made("Destroy", NilSlice, <<>>, handle, engine,
                                            FALSE, engine, 0, NilErr))
            /\ engine' = engine
       ELSE \E out \in tox_kill(engine) :
            /\ trail' = Append(trail, Made("Destroy", NilSlice, <<"tox_kill">>, handle,
                                            engine, out.ub, out.engine, 0, NilErr))
            /\ engine' = out.engine
    /\ UNCHANGED <<handle, tickLog, pc, optVars, heapVars, apiVars, evVars>>

Tox_Destroy ==
    /\ Len(trail) < MaxCalls
    /\ \E out \in tox_kill(engine) :
          /\ trail' = Append(trail, Made("Destroy", NilSlice, <<"tox_kill">>, handle,
                                          engine, out.ub, out.engine, 0, NilErr))
          /\ engine' = out.engine
    /\ UNCHANGED <<handle, tickLog, pc, optVars, heapVars, apiVars, evVars>>

\* Serialize that asks the engine for save data of any size
Tox_SerializeAlwaysFetches ==
    /\ Len(trail) < MaxCalls
    /\ \E o1 \in tox_get_savedata_size(engine) :
          LET c_length == o1.ret
              data == MakeBytes(c_length)
          IN  \E o2 \in tox_get_savedata(o1.engine, FirstByte(data)) :
              /\ trail' = Append(trail,
                     Made("Serialize", NilSlice,
                          <<"tox_get_savedata_size", "tox_get_savedata">>, handle,
                          engine, o1.ub \/ o2.ub, o2.engine, Written(data, o2.ret), NilErr))
              /\ engine' = o2.engine
    /\ UNCHANGED <<handle, tickLog, pc, optVars, heapVars, apiVars, evVars>>

Tox_Serialize ==
    /\ Len(trail) < MaxCalls
    /\ \E o1 \in tox_get_savedata_size(engine) :
          LET c_length == o1.ret
              data == MakeBytes(c_length)
          IN  IF c_length > 0
              THEN \E o2 \in tox_get_savedata(o1.engine, FirstByte(data)) :
                   /\ trail' = Append(trail,
                          Made("Serialize", NilSlice,
                               <<"tox_get_savedata_size", "tox_get_savedata">>, handle,
                               engine, o1.ub \/ o2.ub, o2.engine, Written(data, o2.ret),
                               NilErr))
                   /\ engine' = o2.engine
              ELSE /\ trail' = Append(trail,
                          Made("Serialize", NilSlice, <<"tox_get_savedata_size">>, handle,
                               engine, o1.ub, o1.engine, data, NilErr))
                   /\ engine' = o1.engine
    /\ UNCHANGED <<handle, tickLog, pc, optVars, heapVars, apiVars, evVars>>

\* GetName that returns its buffer without the engine filling it
Tox_GetNameUnfilled ==
    /\ Len(trail) < MaxCalls
    /\ \E o1 \in tox_self_get_name_size(engine) :
          LET c_length == o1.ret
              name == MakeBytes(c_length)
          IN  /\ trail' = Append(trail,
                     Made("GetName", NilSlice, <<"tox_self_get_name_size">>, handle,
                          engine, o1.ub, o1.engine, name, NilErr))
              /\ engine' = o1.engine
    /\ UNCHANGED <<handle, tickLog, pc, optVars, heapVars, apiVars, evVars>>

Tox_GetName ==
    /\ Len(trail) < MaxCalls
    /\ \E o1 \in tox_self_get_name_size(engine) :
          LET c_length == o1.ret
              name == MakeBytes(c_length)
              c_name == IF c_length > 0 THEN FirstByte(name) ELSE NullPtr
          IN  \E o2 \in tox_self_get_name(o1.engine, c_name) :
              /\ trail' = Append(trail,
                     Made("GetName", NilSlice,
                          <<"tox_self_get_name_size", "tox_self_get_name">>, handle,
                          engine, o1.ub \/ o2.ub, o2.engine, Written(name, o2.ret), NilErr))
              /\ engine' = o2.engine
    /\ UNCHANGED <<handle, tickLog, pc, optVars, heapVars, apiVars, evVars>>

\* SetName that passes the engine no more than the maximum length
Tox_SetNameTruncating ==
    /\ Len(trail) < MaxCalls
    /\ \E name \in NameArgs :
          LET c_length == IF GoLen(name) > ToxMaxNameLength
                          THEN ToxMaxNameLength ELSE GoLen(name)
              c_name == IF c_length > 0 THEN FirstByte(name) ELSE NullPtr
          IN  \E out \in tox_self_set_name(engine, c_name, c_length) :
              /\ trail' = Append(trail,
                     Made("SetName", name, <<"tox_self_set_name">>, handle, engine,
                          out.ub, out.engine, 0, SetNameThrow(out.c_error)))
              /\ engine' = out.engine
    /\ UNCHANGED <<handle, tickLog, pc, optVars, heapVars, apiVars, evVars>>

Tox_SetName ==
    /\ Len(trail) < MaxCalls
    /\ \E name \in NameArgs :
          LET c_length == GoLen(name)
              c_name == IF c_length > 0 THEN FirstByte(name) ELSE NullPtr
          IN  \E out \in tox_self_set_name(engine, c_name, c_length) :
              /\ trail' = Append(trail,
                     Made("SetName", name, <<"tox_self_set_name">>, handle, engine,
                          out.ub, out.engine, 0, SetNameThrow(out.c_error)))
              /\ engine' = out.engine
    /\ UNCHANGED <<handle, tickLog, pc, optVars, heapVars, apiVars, evVars>>

\* GetStatusMessage that allocates no buffer for an empty status message
Tox_GetStatusMessageNilWhenEmpty ==
    /\ Len(trail) < MaxCalls
    /\ \E o1 \in tox_self_get_status_message_size(engine) :
          LET c_length == o1.ret
              message == IF c_length > 0 THEN MakeBytes(c_length) ELSE NilSlice
              c_message == IF c_length > 0 THEN FirstByte(message) ELSE NullPtr
          IN  \E o2 \in tox_self_get_status_message(o1.engine, c_message) :
              /\ trail' = Append(trail,
                     Made("GetStatusMessage", NilSlice,
                          <<"tox_self_get_status_message_size",
                            "tox_self_get_status_message">>, handle,
                          engine, o1.ub \/ o2.ub, o2.engine,
                          IF c_length > 0 THEN Written(message, o2.ret) ELSE message,
                          NilErr))
              /\ engine' = o2.engine
    /\ UNCHANGED <<handle, tickLog, pc, optVars, heapVars, apiVars, evVars>>

Tox_GetStatusMessage ==
    /\ Len(trail) < MaxCalls
    /\ \E o1 \in tox_self_get_status_message_size(engine) :
          LET c_length == o1.ret
              message == MakeBytes(c_length)
              c_message == IF c_length > 0 THEN FirstByte(message) ELSE NullPtr
          IN  \E o2 \in tox_self_get_status_message(o1.engine, c_message) :
              /\ trail' = Append(trail,
                     Made("GetStatusMessage", NilSlice,
                          <<"tox_self_get_status_message_size",
                            "tox_self_get_status_message">>, handle,
                          engine, o1.ub \/ o2.ub, o2.engine, Written(message, o2.ret),
                          NilErr))
              /\ engine' = o2.engine
    /\ UNCHANGED <<handle, tickLog, pc, optVars, heapVars, apiVars, evVars>>

Tox_SetStatusMessage ==
    /\ Len(trail) < MaxCalls
    /\ \E message \in StatusMessageArgs :
          LET c_length == GoLen(message)
              c_message == IF c_length > 0 THEN FirstByte(message) ELSE NullPtr
          IN  \E out \in tox_self_set_status_message(engine, c_message, c_length) :
              /\ trail' = Append(trail,
                     Made("SetStatusMessage", message, <<"tox_self_set_status_message">>,
                          handle, engine, out.ub, out.engine, 0,
                          SetStatusMessageThrow(out.c_error)))
              /\ engine' = out.engine
    /\ UNCHANGED <<handle, tickLog, pc, optVars, heapVars, apiVars, evVars>>

NextCalls ==
    \/ Tox_Destroy
    \/ Tox_Serialize
    \/ Tox_GetName
    \/ Tox_SetName
    \/ Tox_GetStatusMessage
    \/ Tox_SetStatusMessage

SpecCalls == InitCalls /\ [][NextCalls]_vars

\* the calls of a method in the trail
CallsOf(op) == {i \in 1..Len(trail) : trail[i].op = op}

\* C15: the Instance keeps no liveness flag: Destroy leaves the handle field
\* as it was, every call made before or after a Destroy (a second Destroy
\* included) reaches the engine with that handle, which is a killed handle
\* exactly when a Destroy came before, and the engine is killed once per
\* Destroy call, so exactly once only when Destroy is called once
C15_DestroyKeepsHandle ==
    /\ handle = TheHandle
    /\ slot = [f \in Fields |-> NilFunc] /\ lock = "free"
    /\ engine.kills = Cardinality(CallsOf("Destroy"))
    /\ \A i \in 1..Len(trail) :
          /\ trail[i].fns # <<>>
          /\ trail[i].handle = TheHandle
          /\ trail[i].ub = (\E j \in CallsOf("Destroy") : j < i)

\* Destroy, then GetName, then a second Destroy, on the handle killed by the first
C15_Witness ==
    /\ Len(trail) >= 3
    /\ trail[1].op = "Destroy" /\ ~trail[1].ub
    /\ trail[2].op = "GetName" /\ trail[2].ub
    /\ trail[3].op = "Destroy" /\ trail[3].ub /\ trail[3].fns = <<"tox_kill">>
    /\ engine.kills = 2
    /\ handle = TheHandle

\* C16: Serialize on a live Instance changes neither the Instance nor the
\* engine's state; it returns a present slice as long as the size the engine
\* reported, the empty one without asking for the save data when that size
\* is 0; and a Serialize that directly follows another returns equal bytes
C16_SerializeReadsOnly ==
    /\ handle = TheHandle
    /\ slot = [f \in Fields |-> NilFunc] /\ lock = "free"
    /\ \A i \in CallsOf("Serialize") :
          ~trail[i].ub =>
              /\ trail[i].after = trail[i].before
              /\ ~trail[i].ret.nil
              /\ \A size \in tox_get_savedata_size(trail[i].before) :
                    /\ GoLen(trail[i].ret) = size.ret
                    /\ size.ret = 0 =>
                          /\ trail[i].fns = <<"tox_get_savedata_size">>
                          /\ trail[i].ret = Slice(<<>>)
              /\ (i + 1 \in CallsOf("Serialize") /\ ~trail[i + 1].ub)
                    => trail[i + 1].ret = trail[i].ret

\* Serialize of a new Instance returned the empty slice without a fetch, then
\* after SetName two Serialize calls in a row returned the same byte
C16_Witness ==
    /\ Len(trail) = 4
    /\ trail[1].op = "Serialize" /\ trail[1].fns = <<"tox_get_savedata_size">>
    /\ trail[1].ret = Slice(<<>>)
    /\ trail[2].op = "SetName" /\ trail[2].arg = Slice(<<65>>)
    /\ trail[3].op = "Serialize" /\ trail[3].ret = Slice(<<65>>)
    /\ trail[4].op = "Serialize" /\ trail[4].ret = Slice(<<65>>)

\* C17: SetName on a live Instance with a name of at most ToxMaxNameLength
\* bytes, the empty name included, returns nil, and a GetName that directly
\* follows returns the bytes of that name
C17_SetNameThenGetName ==
    \A i \in CallsOf("SetName") :
        (~trail[i].ub /\ GoLen(trail[i].arg) <= ToxMaxNameLength) =>
            /\ trail[i].throw = NilErr
            /\ (i + 1 \in CallsOf("GetName") /\ ~trail[i + 1].ub)
                  => trail[i + 1].ret.elems = trail[i].arg.elems

\* a one-byte name was set and read back, then the empty name was set and read back
C17_Witness ==
    /\ Len(trail) = 4
    /\ trail[1].op = "SetName" /\ trail[1].arg = Slice(<<65>>) /\ trail[1].throw = NilErr
    /\ trail[2].op = "GetName" /\ trail[2].ret = Slice(<<65>>)
    /\ trail[3].op = "SetName" /\ trail[3].arg = Slice(<<>>) /\ trail[3].throw = NilErr
    /\ trail[4].op = "GetName" /\ trail[4].ret = Slice(<<>>)

\* C18: SetName on a live Instance with a name longer than ToxMaxNameLength
\* returns ToxErrSetInfoTooLong and leaves the engine's state as it was, so
\* GetName returns after the call what it returned before it
C18_LongNameRefused ==
    \A i \in CallsOf("SetName") :
        (~trail[i].ub /\ GoLen(trail[i].arg) > ToxMaxNameLength) =>
            /\ trail[i].throw = "ToxErrSetInfoTooLong"
            /\ trail[i].after = trail[i].before
            /\ (i - 1 \in CallsOf("GetName") /\ i + 1 \in CallsOf("GetName")
                  /\ ~trail[i + 1].ub)
                  => trail[i + 1].ret = trail[i - 1].ret

\* with a one-byte name set, GetName, a SetName one byte too long, GetName
C18_Witness ==
    /\ Len(trail) = 4
    /\ trail[1].op = "SetName" /\ trail[1].arg = Slice(<<65>>)
    /\ trail[2].op = "GetName" /\ trail[2].ret = Slice(<<65>>)
    /\ trail[3].op = "SetName" /\ GoLen(trail[3].arg) = ToxMaxNameLength + 1
    /\ trail[3].throw = "ToxErrSetInfoTooLong"
    /\ trail[4].op = "GetName" /\ trail[4].ret = Slice(<<65>>)

\* C19: SetStatusMessage on a live Instance with a message of at most
\* ToxMaxStatusMessageLength bytes returns nil, and a GetStatusMessage that
\* directly follows returns that message as a present slice, the empty
\* message as the present empty slice
C19_SetStatusMessageThenGet ==
    \A i \in CallsOf("SetStatusMessage") :
        (~trail[i].ub /\ GoLen(trail[i].arg) <= ToxMaxStatusMessageLength) =>
            /\ trail[i].throw = NilErr
            /\ (i + 1 \in CallsOf("GetStatusMessage") /\ ~trail[i + 1].ub)
                  => trail[i + 1].ret = Slice(trail[i].arg.elems)

\* a one-byte message was set and read back, then the empty message was set
\* and read back as a present slice
C19_Witness ==
    /\ Len(trail) = 4
    /\ trail[1].op = "SetStatusMessage" /\ trail[1].arg = Slice(<<66>>)
    /\ trail[2].op = "GetStatusMessage" /\ trail[2].ret = Slice(<<66>>)
    /\ trail[3].op = "SetStatusMessage" /\ trail[3].arg = Slice(<<>>)
    /\ trail[3].throw = NilErr
    /\ trail[4].op = "GetStatusMessage" /\ ~trail[4].ret.nil /\ GoLen(trail[4].ret) = 0

----------------------------------------------------------------------------
(* The friend directory of one Instance. *)

\* the friend numbers the engine hands out are 0 .. MaxFriends - 1
MaxFriends == 2
\* stand-in for UINT32_MAX, which the engine returns when it added no friend
NoFriendNumber == 2147483647

\* the public key of the Instance itself and those of two other users
SelfKey == "self"
FriendKeys == {"alice", "bob"}
\* addresses passed to FriendAdd: a public key, and whether the checksum matches
Addresses ==
    {[key |-> SelfKey, sum |-> TRUE], [key |-> "alice", sum |-> TRUE],
     [key |-> "alice", sum |-> FALSE]}
\* friend request messages passed to FriendAdd: the empty one and one byte
RequestArgs == {Slice(<<>>), Slice(<<65>>)}

\* the entries the engine may make for a new friend: any number not in use
NewFriends(e, key) ==
    {[number |-> n, key |-> key] :
        n \in (0..(MaxFriends - 1)) \ {f.number : f \in e.friends}}

\* why the engine refuses a public key as a new friend, or OK
Refusal(e, key) ==
    IF key = SelfKey THEN "TOX_ERR_FRIEND_ADD_OWN_KEY"
    ELSE IF key \in {f.key : f \in e.friends} THEN "TOX_ERR_FRIEND_ADD_ALREADY_SENT"
    ELSE IF NewFriends(e, key) = {} THEN "TOX_ERR_FRIEND_ADD_MALLOC"
    ELSE "TOX_ERR_FRIEND_ADD_OK"

tox_friend_add_norequest(e, c_public_key) ==
    IF e.kills > 0 THEN {Undefined(e)}
    ELSE IF Refusal(e, c_public_key) # "TOX_ERR_FRIEND_ADD_OK"
    THEN {Outcome(e, NoFriendNumber, Refusal(e, c_public_key))}
    ELSE {Outcome([e EXCEPT !.friends = @ \cup {f}], f.number, "TOX_ERR_FRIEND_ADD_OK") :
             f \in NewFriends(e, c_public_key)}

tox_friend_add(e, c_address, c_message, c_length) ==
    IF e.kills > 0 THEN {Undefined(e)}
    ELSE IF c_message.null
    THEN {Outcome(e, NoFriendNumber, "TOX_ERR_FRIEND_ADD_NULL")}
    ELSE IF ~c_address.sum
    THEN {Outcome(e, NoFriendNumber, "TOX_ERR_FRIEND_ADD_BAD_CHECKSUM")}
    ELSE IF c_length = 0
    THEN {Outcome(e, NoFriendNumber, "TOX_ERR_FRIEND_ADD_NO_MESSAGE")}
    ELSE tox_friend_add_norequest(e, c_address.key)

tox_friend_delete(e, c_friend_number) ==
    IF e.kills > 0 THEN {Undefined(e)}
    ELSE IF c_friend_number \in {f.number : f \in e.friends}
    THEN {Outcome([e EXCEPT !.friends = {f \in @ : f.number # c_friend_number}], TRUE,
                  "TOX_ERR_FRIEND_DELETE_OK")}
    ELSE {Outcome(e, FALSE, "TOX_ERR_FRIEND_DELETE_FRIEND_NOT_FOUND")}

Tox_FriendAdd ==
    /\ Len(trail) < MaxCalls
    /\ \E address \in Addresses, message \in RequestArgs :
          LET c_length == GoLen(message)
              c_message == IF c_length > 0 THEN FirstByte(message) ELSE NullPtr
          IN  \E out \in tox_friend_add(engine, address, c_message, c_length) :
              /\ trail' = Append(trail,
                     Made("FriendAdd", <<address, message>>, <<"tox_friend_add">>, handle,
                          engine, out.ub, out.engine,
                          IF out.c_error = "TOX_ERR_FRIEND_ADD_OK" THEN out.ret ELSE 0,
                          FriendAddThrow(out.c_error)))
              /\ engine' = out.engine
    /\ UNCHANGED <<handle, tickLog, pc, optVars, heapVars, apiVars, evVars>>

Tox_FriendAddNoRequest ==
    /\ Len(trail) < MaxCalls
    /\ \E publicKey \in {SelfKey} \cup FriendKeys :
          \E out \in tox_friend_add_norequest(engine, publicKey) :
              /\ trail' = Append(trail,
                     Made("FriendAddNoRequest", publicKey, <<"tox_friend_add_norequest">>,
                          handle, engine, out.ub, out.engine,
                          IF out.c_error = "TOX_ERR_FRIEND_ADD_OK" THEN out.ret ELSE 0,
                          FriendAddNoRequestThrow(out.c_error)))
              /\ engine' = out.engine
    /\ UNCHANGED <<handle, tickLog, pc, optVars, heapVars, apiVars, evVars>>

\* FriendDelete that does not look at the engine's error code
Tox_FriendDeleteUnchecked ==
    /\ Len(trail) < MaxCalls
    /\ \E friendNumber \in 0..MaxFriends :
          \E out \in tox_friend_delete(engine, friendNumber) :
              /\ trail' = Append(trail,
                     Made("FriendDelete", friendNumber, <<"tox_friend_delete">>, handle,
                          engine, out.ub, out.engine, 0, NilErr))
              /\ engine' = out.engine
    /\ UNCHANGED <<handle, tickLog, pc, optVars, heapVars, apiVars, evVars>>

Tox_FriendDelete ==
    /\ Len(trail) < MaxCalls
    /\ \E friendNumber \in 0..MaxFriends :
          \E out \in tox_friend_delete(engine, friendNumber) :
              /\ trail' = Append(trail,
                     Made("FriendDelete", friendNumber, <<"tox_friend_delete">>, handle,
                          engine, out.ub, out.engine, 0, FriendDeleteThrow(out.c_error)))
              /\ engine' = out.engine
    /\ UNCHANGED <<handle, tickLog, pc, optVars, heapVars, apiVars, evVars>>

NextFriends ==
    \/ Tox_FriendAdd
    \/ Tox_FriendAddNoRequest
    \/ Tox_FriendDelete
    \/ Tox_Destroy

SpecFriends == InitCalls /\ [][NextFriends]_vars

\* the calls in the trail that added a friend, and the deletions of friend n
Adds ==
    {i \in CallsOf("FriendAdd") \cup CallsOf("FriendAddNoRequest") :
        ~trail[i].ub /\ trail[i].throw = NilErr}
DeletesOf(n) == {j \in CallsOf("FriendDelete") : ~trail[j].ub /\ trail[j].arg = n}

\* C20: after a FriendAdd or FriendAddNoRequest returned friend number n,
\* the first FriendDelete(n) returns nil, and the next FriendDelete(n), when
\* no friend was added in between, returns ToxErrFriendDeleteFriendNotFound;
\* a FriendDelete that returns an error leaves the engine's friends as they were
C20_DeleteOnceThenNotFound ==
    /\ \A i \in Adds : \A j \in DeletesOf(trail[i].ret) :
          (i < j /\ ~\E d \in DeletesOf(trail[i].ret) : i < d /\ d < j) =>
              /\ trail[j].throw = NilErr
              /\ \A k \in DeletesOf(trail[i].ret) :
                    (/\ j < k
                     /\ ~\E d \in DeletesOf(trail[i].ret) : j < d /\ d < k
                     /\ ~\E a \in Adds : j < a /\ a < k)
                        => trail[k].throw = "ToxErrFriendDeleteFriendNotFound"
    /\ \A j \in CallsOf("FriendDelete") :
          (~trail[j].ub /\ trail[j].throw # NilErr) =>
              trail[j].after.friends = trail[j].before.friends

\* two friends were added, the first was deleted, and a second deletion of
\* its number failed and left the other friend in place
C20_Witness ==
    /\ Len(trail) = 4
    /\ trail[1].op = "FriendAdd" /\ trail[1].throw = NilErr
    /\ trail[2].op = "FriendAddNoRequest" /\ trail[2].throw = NilErr
    /\ trail[3].op = "FriendDelete" /\ trail[3].arg = trail[1].ret
    /\ trail[3].throw = NilErr
    /\ trail[4].op = "FriendDelete" /\ trail[4].arg = trail[1].ret
    /\ trail[4].throw = "ToxErrFriendDeleteFriendNotFound"
    /\ Cardinality(engine.friends) = 1

----------------------------------------------------------------------------
(* Restoring an Instance: Serialize on Instance A, then New with options   *)
(* that carry the bytes as SaveData, then the key getters on the new       *)
(* Instance B.  The engines are kept per handle.                           *)

\* the key pairs an engine may have, one byte standing for each key
KeyPairs == {[public_key |-> pk, secret_key |-> sk] : pk \in {1, 2}, sk \in {3, 4}}

\* a new engine with a key pair
KeyedEngine(k) ==
    [name |-> <<>>, status_message |-> <<>>, friends |-> {}, kills |-> 0,
     public_key |-> k.public_key, secret_key |-> k.secret_key]

\* the options a caller builds around save data: any flags and proxy type,
\* a host of at most one byte, the default ports
RestoreOptions(data) ==
    {MkOptions(v6, udp, pt, host, <<0, 0, 0, 0>>, data) :
        v6 \in BOOLEAN, udp \in BOOLEAN,
        pt \in {ToxProxyTypeNone, ToxProxyTypeHttp, ToxProxyTypeSocks5, ToxProxyTypeOther},
        host \in SeqsUpTo(ByteSet, 1)}

\* the bytes an options struct hands the engine as save data
SaveDataAt(c, h) ==
    IF c.isNull \/ c.savedata_data = NULL THEN <<>>
    ELSE SubSeq(h[c.savedata_data].data, 1, c.savedata_length)

\* tox_new: the engine made from an options struct, with the handle
\* returned and the error code.  With the TOX_SAVE tag it loads the key
\* pair from the save data, which must hold one; otherwise it draws a pair.
\* It may always fail for want of a port.
tox_new(c, h, c_tox) ==
    {[engine |-> NoEngine, ret |-> NULL, c_error |-> "TOX_ERR_NEW_PORT_ALLOC"]}
    \cup
    IF ~c.isNull /\ c.savedata_type = "TOX_SAVEDATA_TYPE_TOX_SAVE"
    THEN IF Len(SaveDataAt(c, h)) < 2
         THEN {[engine |-> NoEngine, ret |-> NULL,
                c_error |-> "TOX_ERR_NEW_LOAD_BAD_FORMAT"]}
         ELSE {[engine |-> KeyedEngine([public_key |-> SaveDataAt(c, h)[1],
                                        secret_key |-> SaveDataAt(c, h)[2]]),
                ret |-> c_tox, c_error |-> "TOX_ERR_NEW_OK"]}
    ELSE {[engine |-> KeyedEngine(k), ret |-> c_tox, c_error |-> "TOX_ERR_NEW_OK"] :
             k \in KeyPairs}

tox_self_get_public_key(e) == e.public_key
tox_self_get_secret_key(e) == e.secret_key

\* the handle of Instance B
OtherHandle == 2

\* New(nil) has returned Instance A on an engine with some key pair
InitRestore ==
    /\ heap = EmptyHeap
    /\ heapLog = <<>>
    /\ options = NoOptions
    /\ c_options = NoStruct
    /\ result = NoOptions
    /\ throw = NilErr
    /\ optPc = "none"
    /\ call = NoCall
    /\ slot = [f \in Fields |-> NilFunc]
    /\ registered = [k \in Kinds |-> NoCallback]
    /\ lock = "free"
    /\ procPc = "none"
    /\ event = NoEvent
    /\ lastSet = [f \in Fields |-> "unset"]
    /\ setCalls = 0
    /\ tickLog = NoTick
    /\ pc = <<>>
    /\ handle = TheHandle
    /\ \E k \in KeyPairs : engine = (TheHandle :> KeyedEngine(k))
    /\ trail = <<>>

\* A.Serialize()
RestoreSerialize ==
    /\ trail = <<>>
    /\ \E o1 \in tox_get_savedata_size(engine[handle]) :
          LET c_length == o1.ret
              data == MakeBytes(c_length)
          IN  IF c_length > 0
              THEN \E o2 \in tox_get_savedata(o1.engine, FirstByte(data)) :
                   trail' = Append(trail,
                       Made("Serialize", NilSlice,
                            <<"tox_get_savedata_size", "tox_get_savedata">>, handle,
                            engine, o1.ub \/ o2.ub, engine, Written(data, o2.ret), NilErr))
              ELSE trail' = Append(trail,
                       Made("Serialize", NilSlice, <<"tox_get_savedata_size">>, handle,
                            engine, o1.ub, engine, data, NilErr))
    /\ UNCHANGED <<engine, handle, tickLog, pc, optVars, heapVars, apiVars, evVars>>

\* New that hands the engine no options
RestoreNewWithoutOptions ==
    /\ Len(trail) = 1
    /\ \E opts \in RestoreOptions(trail[1].ret) :
       \E out \in tox_new(NoStruct, heap, OtherHandle) :
          /\ options' = opts
          /\ heap' = heap
          /\ heapLog' = <<[op |-> "tox_new", addr |-> NULL]>>
          /\ engine' = IF out.c_error = "TOX_ERR_NEW_OK"
                       THEN engine @@ (out.ret :> out.engine) ELSE engine
          /\ trail' = Append(trail,
                 Made("New", [options |-> opts, c |-> NoStruct, savedata |-> <<>>],
                      <<"tox_new">>, NULL, engine, FALSE, out.engine,
                      IF out.c_error = "TOX_ERR_NEW_OK"
                      THEN [isNil |-> FALSE, handle |-> out.ret] ELSE NoTox,
                      NewThrow(out.c_error)))
    /\ UNCHANGED <<handle, tickLog, pc, c_options, result, throw, optPc, apiVars, evVars>>

\* New(options) with the bytes Serialize returned as options.SaveData
RestoreNew ==
    /\ Len(trail) = 1
    /\ \E opts \in RestoreOptions(trail[1].ret) :
       \E pre \in COptions(opts, heap) :
          /\ options' = opts
          /\ IF pre.throw # NilErr
             THEN /\ heap' = pre.heap
                  /\ heapLog' = pre.log
                  /\ engine' = engine
                  /\ trail' = Append(trail,
                         Made("New", [options |-> opts, c |-> pre.c, savedata |-> <<>>],
                              <<>>, NULL, engine, FALSE, NoEngine, NoTox, pre.throw))
             ELSE \E out \in tox_new(pre.c, pre.heap, OtherHandle) :
                  /\ heap' = FreeAll(pre.heap, FreeOptions(pre.c))
                  /\ heapLog' = pre.log \o <<[op |-> "tox_new", addr |-> NULL]>>
                                        \o FreeLog(FreeOptions(pre.c))
                  /\ engine' = IF out.c_error = "TOX_ERR_NEW_OK"
                               THEN engine @@ (out.ret :> out.engine) ELSE engine
                  /\ trail' = Append(trail,
                         Made("New", [options |-> opts, c |-> pre.c,
                                      savedata |-> SaveDataAt(pre.c, pre.heap)],
                              <<"tox_new">>, NULL, engine, FALSE, out.engine,
                              IF out.c_error = "TOX_ERR_NEW_OK"
                              THEN [isNil |-> FALSE, handle |-> out.ret] ELSE NoTox,
                              NewThrow(out.c_error)))
    /\ UNCHANGED <<handle, tickLog, pc, c_options, result, throw, optPc, apiVars, evVars>>

\* B.GetPublicKey()
RestoreGetPublicKey ==
    /\ Len(trail) >= 2 /\ Len(trail) < MaxCalls
    /\ trail[2].throw = NilErr
    /\ trail' = Append(trail,
           Made("GetPublicKey", NilSlice, <<"tox_self_get_public_key">>,
                trail[2].ret.handle, engine, FALSE, engine,
                tox_self_get_public_key(engine[trail[2].ret.handle]), NilErr))
    /\ UNCHANGED <<engine, handle, tickLog, pc, optVars, heapVars, apiVars, evVars>>

\* B.GetSecretKey()
RestoreGetSecretKey ==
    /\ Len(trail) >= 2 /\ Len(trail) < MaxCalls
    /\ trail[2].throw = NilErr
    /\ trail' = Append(trail,
           Made("GetSecretKey", NilSlice, <<"tox_self_get_secret_key">>,
                trail[2].ret.handle, engine, FALSE, engine,
                tox_self_get_secret_key(engine[trail[2].ret.handle]), NilErr))
    /\ UNCHANGED <<engine, handle, tickLog, pc, optVars, heapVars, apiVars, evVars>>

NextRestore ==
    \/ RestoreSerialize
    \/ RestoreNew
    \/ RestoreGetPublicKey
    \/ RestoreGetSecretKey

SpecRestore == InitRestore /\ [][NextRestore]_vars

\* C21: when New succeeds on options whose SaveData is what Serialize
\* returned for Instance A, the engine was handed those bytes unchanged, in
\* their full length and under the TOX_SAVE tag, and GetPublicKey and
\* GetSecretKey of the new Instance return the keys of A
C21_RestoredKeys ==
    (Len(trail) >= 2 /\ trail[2].op = "New" /\ trail[2].throw = NilErr) =>
        /\ trail[2].arg.options.SaveData = trail[1].ret
        /\ ~trail[2].arg.c.isNull
        /\ trail[2].arg.c.savedata_type = "TOX_SAVEDATA_TYPE_TOX_SAVE"
        /\ trail[2].arg.c.savedata_length = GoLen(trail[1].ret)
        /\ trail[2].arg.savedata = trail[1].ret.elems
        /\ \A i \in CallsOf("GetPublicKey") :
              trail[i].ret = tox_self_get_public_key(engine[TheHandle])
        /\ \A i \in CallsOf("GetSecretKey") :
              trail[i].ret = tox_self_get_secret_key(engine[TheHandle])

\* Instance B was restored and both of its keys were read
C21_Witness ==
    /\ Len(trail) = 4
    /\ trail[1].op = "Serialize" /\ GoLen(trail[1].ret) = 2
    /\ trail[2].op = "New" /\ trail[2].throw = NilErr
    /\ trail[2].ret.handle = OtherHandle
    /\ trail[3].op = "GetPublicKey" /\ trail[3].ret = engine[TheHandle].public_key
    /\ trail[4].op = "GetSecretKey" /\ trail[4].ret = engine[TheHandle].secret_key

----------------------------------------------------------------------------
(* Two Instances in one process, each on its own engine handle.  slot is   *)
(* the memory that holds their handler fields, by pointer; handle and lock *)
(* hold their other two fields; registered is the callback table of each   *)
(* engine handle.  One goroutine calls SetOn<K> and Process on either.     *)

\* the second Instance, as the pointer handed to the engine as user data
OtherTox == "tox2"
Toxes == {TheTox, OtherTox}

\* the events an engine raises here: those that carry no bytes, with one
\* recognized value of each enumeration and an unrecognized connection status
TwoEvents ==
    {ev \in EngineEvents :
        /\ ev.c_data = <<>>
        /\ ev.c_enum \in {NoEnum, "TOX_CONNECTION_UDP", "TOX_CONNECTION_UNRECOGNIZED",
                          "TOX_USER_STATUS_BUSY", "TOX_MESSAGE_TYPE_ACTION"}}

\* the handler a caller has for each Instance
HandlerOf == (TheTox :> "h1") @@ (OtherTox :> "h2")

\* New has returned two Instances: no handler assigned, nothing registered
InitTwo ==
    /\ heap = EmptyHeap
    /\ heapLog = <<>>
    /\ options = NoOptions
    /\ c_options = NoStruct
    /\ result = NoOptions
    /\ throw = NilErr
    /\ optPc = "none"
    /\ call = NoCall
    /\ slot = [t \in Toxes |-> [f \in Fields |-> NilFunc]]
    /\ handle = (TheTox :> TheHandle) @@ (OtherTox :> OtherHandle)
    /\ registered = [h \in {TheHandle, OtherHandle} |-> [k \in Kinds |-> NoCallback]]
    /\ lock = [t \in Toxes |-> "free"]
    /\ procPc = "idle"
    /\ event = NoEvent
    /\ lastSet = [op |-> "none"]
    /\ setCalls = 0
    /\ tickLog = NoTick
    /\ pc = <<>>
    /\ engine = NoEngine
    /\ trail = <<>>

\* SetOn<K> that keeps the handlers in one table for all Instances
TwoSetOnShared ==
    \E tox \in Toxes, op \in DOMAIN SetOnKind :
    \E callback \in {HandlerOf[tox], NilFunc} :
        /\ procPc = "idle" /\ setCalls < MaxSetCalls
        /\ slot' = [t \in Toxes |-> [slot[t] EXCEPT ![FieldOf(SetOnKind[op])] = callback]]
        /\ registered' = [registered EXCEPT ![handle[tox]][SetOnKind[op]] =
                             register(SetOnKind[op], tox)]
        /\ lastSet' = [op |-> op, tox |-> tox, callback |-> callback]
        /\ setCalls' = setCalls + 1
        /\ event' = NoEvent
        /\ UNCHANGED <<handle, lock, procPc, tickLog, pc, engine, trail,
                       optVars, heapVars, apiVars>>

\* tox.SetOn<K>(callback): assign the field of tox, then register
\* callback_<k> on tox.handle with tox as user data
TwoSetOn ==
    \E tox \in Toxes, op \in DOMAIN SetOnKind :
    \E callback \in {HandlerOf[tox], NilFunc} :
        /\ procPc = "idle" /\ setCalls < MaxSetCalls
        /\ slot' = [slot EXCEPT ![tox][FieldOf(SetOnKind[op])] = callback]
        /\ registered' = [registered EXCEPT ![handle[tox]][SetOnKind[op]] =
                             register(SetOnKind[op], tox)]
        /\ lastSet' = [op |-> op, tox |-> tox, callback |-> callback]
        /\ setCalls' = setCalls + 1
        /\ event' = NoEvent
        /\ UNCHANGED <<handle, lock, procPc, tickLog, pc, engine, trail,
                       optVars, heapVars, apiVars>>

\* tox.Process(): lock, tox_iterate on tox.handle, in which the engine of
\* that handle raises an event and calls the entry of its own table, unlock;
\* a panic of the callback ends the goroutine with the lock held
TwoProcess ==
    \E tox \in Toxes, ev \in TwoEvents :
        LET cb == registered[handle[tox]][ev.kind]
            out == IF cb.fn = "none"
                   THEN [panic |-> NoPanic, ran |-> <<>>]
                   ELSE Invoke(cb, ToxAt(cb.user_data, slot), ev)
        IN  /\ procPc = "idle" /\ lock[tox] = "free"
            /\ event' = [kind |-> ev.kind, tox |-> tox, ran |-> out.ran,
                         panic |-> out.panic]
            /\ procPc' = IF out.panic = NoPanic THEN "idle" ELSE "panicked"
            /\ lock' = IF out.panic = NoPanic THEN lock
                       ELSE [lock EXCEPT ![tox] = "held"]
            /\ UNCHANGED <<slot, handle, registered, lastSet, setCalls,
                           tickLog, pc, engine, trail, optVars, heapVars, apiVars>>

NextTwo == TwoSetOn \/ TwoProcess

SpecTwo == InitTwo /\ [][NextTwo]_vars

\* C22: an event raised by the engine of one Instance's handle invokes
\* only the handler stored in that Instance's slot for the kind, with that
\* Instance as the first argument, whatever the other Instance holds
C22_NoCrossTalk ==
    event # NoEvent =>
        \A i \in 1..Len(event.ran) :
            /\ event.ran[i].func = slot[event.tox][FieldOf(event.kind)]
            /\ event.ran[i].args[1] = event.tox

\* both Instances hold a handler for friend_name, different ones, and an
\* event of the second Instance's engine ran the second Instance's handler
C22_Witness ==
    /\ event # NoEvent /\ event.kind = "friend_name" /\ event.tox = OtherTox
    /\ slot[TheTox].onFriendName = "h1" /\ slot[OtherTox].onFriendName = "h2"
    /\ Len(event.ran) = 1 /\ event.ran[1].func = "h2"
    /\ event.ran[1].args[1] = OtherTox

\* the handler slot each SetOn<K> method is named after
SlotOf ==
    [SetOnSelfConnectionStatus |-> "onSelfConnectionStatus",
     SetOnFriendRequest |-> "onFriendRequest",
     SetOnFriendName |-> "onFriendName",
     SetOnFriendStatus |-> "onFriendStatus",
     SetOnFriendStatusMessage |-> "onFriendStatusMessage",
     SetOnFriendConnectionStatus |-> "onFriendConnectionStatus",
     SetOnFriendMessage |-> "onFriendMessage",
     SetOnFriendLosslessPacket |-> "onFriendLosslessPacket"]

\* C29: a SetOn<K> call assigns handler slot K of the Instance it is
\* called on and leaves alone that Instance's other seven slots, its handle
\* and its mutex, and every field of the other Instance
C29_SetOnFrame ==
    [][setCalls' # setCalls =>
          /\ slot'[lastSet'.tox][SlotOf[lastSet'.op]] = lastSet'.callback
          /\ \A t \in Toxes, f \in Fields :
                (t # lastSet'.tox \/ f # SlotOf[lastSet'.op]) => slot'[t][f] = slot[t][f]
          /\ handle' = handle
          /\ lock' = lock]_vars

\* the first Instance holds a handler and SetOnFriendName was just called
\* on the second
C29_Witness ==
    /\ event = NoEvent /\ setCalls = 2
    /\ lastSet.op = "SetOnFriendName" /\ lastSet.tox = OtherTox
    /\ slot[OtherTox].onFriendName = "h2"
    /\ slot[TheTox].onFriendMessage = "h1"
    /\ \A f \in Fields \ {"onFriendName"} : slot[OtherTox][f] = NilFunc

\* ---------------------------------------------------------------------------
\* The two-step friend queries
\* ---------------------------------------------------------------------------

FriendTwoStep == {"FriendGetName", "FriendGetStatusMessage"}
QueryOk == "TOX_ERR_FRIEND_QUERY_OK"
FriendQueryError(code) ==
    LET f == FamilyOf("FriendGetName")
    IN  IF code \in KnownCodes(f) THEN NamedError(f, code) ELSE "ToxErrUnknown"

NumberOps == {"FriendAdd", "FriendAddNoRequest", "FriendByPublicKey", "FriendSendMessage"}

\* C30: FriendAdd, FriendAddNoRequest, FriendByPublicKey and
\* FriendSendMessage return the number the engine returned only together
\* with a nil error; with a non-nil error the returned number is 0.
C30_NumberOnlyOnSuccess ==
    call.op \in NumberOps =>
        IF call.throw = NilErr THEN call.num = call.eng ELSE call.num = 0

C30_Witness ==
    /\ call.op = "FriendSendMessage"
    /\ call.throw # NilErr
    /\ call.eng # 0
    /\ call.num = 0

\* ---------------------------------------------------------------------------
\* Registration of the callbacks
\* ---------------------------------------------------------------------------

\* the threads inside a SetOn<K> method
Registering == {t \in Threads : pc[t].op \in DOMAIN SetOnKind}

\* C24 as stated: a SetOn<K> method calls register_<k> only when kind K has
\* no entry in the engine's table yet, the first registration of the kind.
C24_RegistersOnlyFirst ==
    \A t \in Registering : registered[SetOnKind[pc[t].op]] = NoCallback

\* C24: every SetOn<K> call, the first for its kind or a later one, calls
\* register_<k> after it has assigned the field, and when it returns the
\* engine's table holds callback_<k> for the kind with the Instance as user
\* data.
C24_RegistersEveryCall ==
    [][\A t \in Threads :
          /\ pc'[t].op \in DOMAIN SetOnKind =>
                pc'[t].at = EngineCalls[pc'[t].op][1]
          /\ (pc[t].op \in DOMAIN SetOnKind /\ pc'[t] = Idle) =>
                registered'[SetOnKind[pc[t].op]] =
                    register(SetOnKind[pc[t].op], TheTox)]_vars

\* C24 witness: a thread is inside register_friend_name for the second
\* SetOnFriendName call, replacing one handler by another.
C24_Witness ==
    /\ pc["t2"] = In("SetOnFriendName", "register_friend_name")
    /\ registered["friend_name"] = register("friend_name", TheTox)
    /\ setCalls = 2
    /\ slot.onFriendName \in Funcs

----------------------------------------------------------------------------
(* The call stack of each thread during a dispatch: Process, the callback  *)
(* the engine calls inside tox_iterate, and the handler the callback       *)
(* calls, which may itself call Process on the Instance.                   *)

\* the frames a thread may have on its stack in one behaviour
MaxFrames == 3

\* the frame of a handler the callback called and that has not returned
Running(f) == In(f, "running")
HandlerFrames == {Running(f) : f \in Funcs}

\* the frames of a stack
Frames(stack) == {stack[i] : i \in 1..Len(stack)}

\* the frame a thread is executing: the first of its stack
Top(t) == IF pc[t] = <<>> THEN Idle ELSE Head(pc[t])
Push(t, frame) == [pc EXCEPT ![t] = <<frame>> \o pc[t]]
Pop(t) == [pc EXCEPT ![t] = Tail(pc[t])]
\* a panic unwinds every frame of the thread, no frame recovers
Unwound(t) == [pc EXCEPT ![t] = <<In("Process", "panicked")>>]

InitDispatch ==
    /\ heap = EmptyHeap
    /\ heapLog = <<>>
    /\ options = NoOptions
    /\ c_options = NoStruct
    /\ result = NoOptions
    /\ throw = NilErr
    /\ optPc = "none"
    /\ call = NoCall
    /\ slot = [f \in Fields |-> NilFunc]
    /\ registered = [k \in Kinds |-> NoCallback]
    /\ lock = "free"
    /\ procPc = "idle"
    /\ event = NoEvent
    /\ lastSet = [f \in Fields |-> "unset"]
    /\ setCalls = 0
    /\ tickLog = NoTick
    /\ pc = [t \in Threads |-> <<>>]
    /\ handle = TheHandle
    /\ engine = NoEngine
    /\ trail = <<>>

\* a thread calls Process, from no call or from inside a handler, and
\* reaches tox.lock.Lock()
DispatchProcess ==
    \E t \in Threads :
        /\ Top(t) \in {Idle} \cup HandlerFrames
        /\ Len(pc[t]) < MaxFrames
        /\ pc' = Push(t, In("Process", "Lock"))
        /\ UNCHANGED <<slot, registered, lock, procPc, event, lastSet, setCalls,
                       tickLog, handle, engine, trail, optVars, heapVars, apiVars>>

\* Lock that a thread already holding the mutex may take again
DispatchLockReentrant ==
    \E t \in Threads :
        /\ Top(t) = In("Process", "Lock")
        /\ CanLock(lock) \/ In("Process", "tox_iterate") \in Frames(pc[t])
        /\ lock' = "held"
        /\ pc' = [pc EXCEPT ![t] = <<In("Process", "tox_iterate")>> \o Tail(pc[t])]
        /\ UNCHANGED <<slot, registered, procPc, event, lastSet, setCalls,
                       tickLog, handle, engine, trail, optVars, heapVars, apiVars>>

\* Lock returns with the mutex held, and Process enters tox_iterate
DispatchLock ==
    \E t \in Threads :
        /\ Top(t) = In("Process", "Lock")
        /\ CanLock(lock)
        /\ lock' = "held"
        /\ pc' = [pc EXCEPT ![t] = <<In("Process", "tox_iterate")>> \o Tail(pc[t])]
        /\ UNCHANGED <<slot, registered, procPc, event, lastSet, setCalls,
                       tickLog, handle, engine, trail, optVars, heapVars, apiVars>>

\* tox_iterate whose callbacks start the handler on another thread
DispatchEventElsewhere ==
    \E t \in Threads, u \in Threads, ev \in TwoEvents :
        /\ Top(t) = In("Process", "tox_iterate")
        /\ event' = Raised(ev)
        /\ pc' = IF Raised(ev).panic # NoPanic THEN Unwound(t)
                 ELSE IF Raised(ev).ran = <<>> THEN pc
                 ELSE Push(u, Running(Raised(ev).ran[1].func))
        /\ UNCHANGED <<slot, registered, lock, procPc, lastSet, setCalls,
                       tickLog, handle, engine, trail, optVars, heapVars, apiVars>>

\* tox_iterate raises an event on the thread inside it: the callback
\* panics, and the panic unwinds through Process with the mutex held, or it
\* calls the handler, on that thread
DispatchEvent ==
    \E t \in Threads, ev \in TwoEvents :
        /\ Top(t) = In("Process", "tox_iterate")
        /\ event' = Raised(ev)
        /\ pc' = IF Raised(ev).panic # NoPanic THEN Unwound(t)
                 ELSE IF Raised(ev).ran = <<>> THEN pc
                 ELSE Push(t, Running(Raised(ev).ran[1].func))
        /\ UNCHANGED <<slot, registered, lock, procPc, lastSet, setCalls,
                       tickLog, handle, engine, trail, optVars, heapVars, apiVars>>

\* the handler returns to the callback, which returns to tox_iterate
DispatchHandlerReturn ==
    \E t \in Threads :
        /\ Top(t) \in HandlerFrames
        /\ pc' = Pop(t)
        /\ UNCHANGED <<slot, registered, lock, procPc, event, lastSet, setCalls,
                       tickLog, handle, engine, trail, optVars, heapVars, apiVars>>

\* the handler panics: the panic unwinds through the callback, tox_iterate
\* and Process, which has no deferred Unlock
DispatchHandlerPanic ==
    \E t \in Threads :
        /\ Top(t) \in HandlerFrames
        /\ pc' = Unwound(t)
        /\ UNCHANGED <<slot, registered, lock, procPc, event, lastSet, setCalls,
                       tickLog, handle, engine, trail, optVars, heapVars, apiVars>>

\* tox_iterate returns: tox.lock.Unlock(), and Process returns
DispatchUnlock ==
    \E t \in Threads :
        /\ Top(t) = In("Process", "tox_iterate")
        /\ lock' = "free"
        /\ pc' = Pop(t)
        /\ UNCHANGED <<slot, registered, procPc, event, lastSet, setCalls,
                       tickLog, handle, engine, trail, optVars, heapVars, apiVars>>

NextDispatch ==
    \/ SetOnSelfConnectionStatus \/ SetOnFriendRequest \/ SetOnFriendName
    \/ SetOnFriendStatus \/ SetOnFriendStatusMessage
    \/ SetOnFriendConnectionStatus \/ SetOnFriendMessage
    \/ SetOnFriendLosslessPacket
    \/ DispatchProcess \/ DispatchLock \/ DispatchEvent
    \/ DispatchHandlerReturn \/ DispatchHandlerPanic \/ DispatchUnlock

SpecDispatch == InitDispatch /\ [][NextDispatch]_vars

\* where a thread's stack holds a handler, and whether it holds tox_iterate
HandlerAt(t) == {i \in 1..Len(pc[t]) : pc[t][i] \in HandlerFrames}
InProcess(t) == In("Process", "tox_iterate") \in Frames(pc[t])

\* C25: a handler runs only while the mutex is held by a Process call that
\* is inside tox_iterate on the handler's own thread, directly under the
\* handler on the stack; so the handler has returned before that Process
\* call unlocks, and no handler runs while the mutex is free.
C25_HandlerInsideTick ==
    \A t \in Threads : \A i \in HandlerAt(t) :
        /\ lock = "held"
        /\ i < Len(pc[t])
        /\ pc[t][i + 1] = In("Process", "tox_iterate")

\* C25 witness: h1 is running on t1 inside t1's Process call while t2 has
\* called Process and waits for the mutex.
C25_Witness ==
    /\ pc["t1"] = <<Running("h1"), In("Process", "tox_iterate")>>
    /\ pc["t2"] = <<In("Process", "Lock")>>
    /\ lock = "held"

\* C26 as stated: the mutex is held only while a Process call is inside
\* tox_iterate; every Process call that took it has released it once
\* control has left Process, by a return or by a panic.
C26_ReleasedOnEveryExit ==
    lock = "held" => \E t \in Threads : InProcess(t)

\* C26: a callback panicked on an unrecognized enumerated value, the panic
\* left Process on t1 with the mutex held, and t2's later Process call
\* waits in Lock for a mutex nothing will release.
C26_Witness ==
    /\ pc["t1"] = <<In("Process", "panicked")>>
    /\ event.panic = "unknown connection status"
    /\ pc["t2"] = <<In("Process", "Lock")>>
    /\ lock = "held"

\* a thread whose handler called Process and waits in the inner Lock
Nested(t) ==
    /\ Top(t) = In("Process", "Lock")
    /\ HandlerAt(t) # {}
    /\ InProcess(t)

\* C27: a handler that calls Process on its own Instance waits in Lock for
\* the mutex its own thread's outer Process call holds: from then on the
\* mutex stays held and the thread takes no step, so neither the inner nor
\* the outer Process call returns.
C27_InnerProcessBlocks ==
    [][\A t \in Threads : Nested(t) => lock = "held" /\ lock' = "held" /\ pc'[t] = pc[t]]_vars

\* C27 witness: h1, called inside t1's Process call, called Process.
C27_Witness ==
    /\ pc["t1"] = <<In("Process", "Lock"), Running("h1"), In("Process", "tox_iterate")>>
    /\ lock = "held"

----------------------------------------------------------------------------
(* A thread inside a size-then-fetch getter while another thread calls the *)
(* methods that change what the engine holds.  No method but Process       *)
(* touches tox.lock, so the other thread's call may fall between the size  *)
(* query and the fetch.                                                    *)

\* the friend numbers of the engine below n, in ascending order
RECURSIVE FriendListBelow(_, _)
FriendListBelow(e, n) ==
    IF n = 0 THEN <<>>
    ELSE FriendListBelow(e, n - 1)
         \o (IF n - 1 \in {f.number : f \in e.friends} THEN <<n - 1>> ELSE <<>>)

tox_self_get_friend_list_size(e) ==
    IF e.kills > 0 THEN {Undefined(e)}
    ELSE {Outcome(e, Cardinality(e.friends), "none")}

\* the numbers the engine writes at the pointer: none at a null pointer
tox_self_get_friend_list(e, c_friend_list) ==
    IF e.kills > 0 THEN {Undefined(e)}
    ELSE {Outcome(e, IF c_friend_list.null THEN <<>> ELSE FriendListBelow(e, MaxFriends),
                  "none")}

\* the getters that ask the engine for a size, make a slice of that size
\* and have the engine write through a pointer to its first element
SizedGetters ==
    {"Serialize", "GetName", "GetStatusMessage", "GetFriendList"}

SizeQuery(op, e) ==
    CASE op = "Serialize" -> tox_get_savedata_size(e)
      [] op = "GetName" -> tox_self_get_name_size(e)
      [] op = "GetStatusMessage" -> tox_self_get_status_message_size(e)
      [] op = "GetFriendList" -> tox_self_get_friend_list_size(e)

Fetch(op, e, ptr) ==
    CASE op = "Serialize" -> tox_get_savedata(e, ptr)
      [] op = "GetName" -> tox_self_get_name(e, ptr)
      [] op = "GetStatusMessage" -> tox_self_get_status_message(e, ptr)
      [] op = "GetFriendList" -> tox_self_get_friend_list(e, ptr)

\* a getter between its two engine calls, and after its fetch
Sized(op, c_length) ==
    [op |-> op, c_length |-> c_length, buf |-> MakeBytes(c_length),
     fetched |-> FALSE, wrote |-> <<>>]

InitRace ==
    /\ heap = EmptyHeap
    /\ heapLog = <<>>
    /\ options = NoOptions
    /\ c_options = NoStruct
    /\ result = NoOptions
    /\ throw = NilErr
    /\ optPc = "none"
    /\ call = NoCall
    /\ slot = [f \in Fields |-> NilFunc]
    /\ registered = [k \in Kinds |-> NoCallback]
    /\ lock = "free"
    /\ procPc = "idle"
    /\ event = NoEvent
    /\ lastSet = [f \in Fields |-> "unset"]
    /\ setCalls = 0
    /\ tickLog = NoTick
    /\ pc = [t \in Threads |-> Idle]
    /\ handle = TheHandle
    /\ engine = FreshEngine
    /\ trail = <<>>

\* a thread calls a getter: the size query returns c_length and the getter
\* makes its slice; Serialize with c_length 0 returns without a fetch
RaceSizeQuery ==
    \E op \in SizedGetters : \E o1 \in SizeQuery(op, engine) :
        /\ pc["t1"] = Idle
        /\ call' = Sized(op, o1.ret)
        /\ pc' = [pc EXCEPT !["t1"] = IF op = "Serialize" /\ o1.ret = 0
                                      THEN Idle ELSE In(op, "fetch")]
        /\ UNCHANGED <<engine, trail, handle, tickLog, optVars, heapVars, evVars>>

\* the getter passes the engine a pointer to the first element of its
\* slice, or the null pointer for an empty slice, and the engine writes what
\* it holds now
RaceFetch ==
    /\ pc["t1"].at = "fetch"
    /\ \E o2 \in Fetch(pc["t1"].op, engine,
                       IF call.c_length > 0 THEN FirstByte(call.buf) ELSE NullPtr) :
          call' = [call EXCEPT !.fetched = TRUE, !.wrote = o2.ret]
    /\ pc' = [pc EXCEPT !["t1"] = Idle]
    /\ UNCHANGED <<engine, trail, handle, tickLog, optVars, heapVars, evVars>>

NextRace ==
    \/ RaceSizeQuery \/ RaceFetch
    \/ Tox_SetName \/ Tox_SetStatusMessage \/ Tox_FriendAddNoRequest \/ Tox_FriendDelete

SpecRace == InitRace /\ [][NextRace]_vars

\* C28 as stated: whatever another thread called between the size query
\* and the fetch, the engine writes no more elements at the pointer than
\* the slice the getter made holds.
C28_FetchFitsBuffer ==
    (call.op \in SizedGetters /\ call.fetched) => Len(call.wrote) <= call.c_length

\* C28: GetFriendList made a slice for the one friend the engine held, the
\* other thread's FriendAddNoRequest returned before the fetch, and the engine wrote
\* two numbers.
C28_Witness ==
    /\ call.op = "GetFriendList"
    /\ call.fetched
    /\ call.c_length = 1
    /\ Len(call.wrote) = 2

============================================================================
